---- MODULE Spec2Model ----
(***************************************************************************)
(* Conative gating: the policy oracle (src/src/oracle/src/lib.rs), the     *)
(* contract layer and its test harness (src/src/contract/src/lib.rs) and   *)
(* the CLI entry eval_contract_request (src/src/main.rs).                  *)
(*                                                                         *)
(* Strings are TLA+ strings; a character is a string of length 1.  The     *)
(* character "~" stands for U+00E9 (two UTF-8 bytes, its own lowercase);   *)
(* every other character is ASCII (one byte).  An Option<T> is a sequence  *)
(* of length 0 (None) or 1 (Some).                                         *)
(***************************************************************************)
EXTENDS Integers, Sequences, FiniteSets, TLC

VARIABLES
    policy,    \* ContractRunner.policy, cloned into its oracle at construction
    request,   \* Option: the GatingRequest handed to ContractRunner.evaluate
    outcome,   \* Option: the Result that evaluate returned for it
    previous,  \* Option: the Result of the proposal before a file was added to it
    results,   \* TestHarness.results
    cliExit,   \* Option: what eval_contract_request or run_regression_tests returned
    aborted,   \* the thread panicked
    baseline,         \* Option: the RegressionBaseline in the baseline file
    saved_summary,    \* Option: the TestSummary that baseline was made from
    current_results,  \* RegressionHarness.current_results
    report,           \* Option: the RegressionReport of compare
    audit,            \* Option: the AuditEntry `contract eval --audit` printed
    redteam,          \* Option: the RedTeamSummary of run_redteam_tests, or one read back
    score,            \* Option: what security_score returned for it
    scanned           \* Option: the root `scan` was given and the Result of scan_directory

\* what `regression` reads and writes besides the harness and the exit code
regressionVars == <<baseline, saved_summary, current_results, report>>

\* what `redteam` prints
redteamVars == <<redteam, score>>

vars == <<policy, request, outcome, previous, results, cliExit, aborted,
          baseline, saved_summary, current_results, report, audit, redteam, score, scanned>>

\* ------------------------------------------------------------------ bounds

MaxFiles == 2
MaxResults == 2

\* ----------------------------------------------------------------- options

None == <<>>
Some(x) == <<x>>
IsSome(o) == Len(o) = 1
Unwrap(o) == o[1]

\* ----------------------------------------------------------------- helpers

Min(a, b) == IF a <= b THEN a ELSE b

\* usize::saturating_sub
SaturatingSub(a, b) == IF a >= b THEN a - b ELSE 0

RECURSIVE Flatten(_)
Flatten(ss) == IF ss = <<>> THEN <<>> ELSE Head(ss) \o Flatten(Tail(ss))

Range(s) == {s[i] : i \in DOMAIN s}

\* ------------------------------------------------------------------ policy

LanguageConfig(name, extensions, markers) ==
    [name |-> name, extensions |-> extensions, markers |-> markers]

SecretRegex == "(?i)(password|secret|api_key)\\s*=\\s*[\"'][^\"']{8,}[\"']"

\* Policy::rsr_default
rsr_default ==
    [name |-> "RSR Default Policy",
     languages |->
       [tier1 |-> << LanguageConfig("rust", <<".rs">>, <<"fn main", "impl ", "pub fn">>),
                     LanguageConfig("elixir", <<".ex", ".exs">>, <<"defmodule", "def ">>),
                     LanguageConfig("zig", <<".zig">>, <<"const std">>),
                     LanguageConfig("ada", <<".adb", ".ads">>, <<"procedure", "package">>),
                     LanguageConfig("haskell", <<".hs">>, <<"module ">>),
                     LanguageConfig("rescript", <<".res", ".resi">>, <<"@react.component">>) >>,
        tier2 |-> << LanguageConfig("nickel", <<".ncl">>, <<>>),
                     LanguageConfig("racket", <<".rkt">>, <<"#lang">>) >>,
        forbidden |->
                  << LanguageConfig("typescript", <<".ts", ".tsx">>,
                                    <<": string", ": number", "interface ">>),
                     LanguageConfig("python", <<".py">>, <<"import ", "def ">>),
                     LanguageConfig("go", <<".go">>, <<"package main", "func ">>),
                     LanguageConfig("java", <<".java">>, <<"public class">>) >>,
        exceptions |->
                  << [language |-> "python",
                      allowed_paths |-> <<"salt/", "training/">>,
                      reason |-> "Python allowed for Salt configs and ML training"] >>],
     toolchain |->
       [rules |-> << [tool |-> "npm",
                      tool_markers |-> <<"package.json", "npm install">>,
                      requires |-> "deno",
                      requires_markers |-> <<"deno.json">>] >>],
     patterns |->
       [forbidden_patterns |->
                  << [name |-> "hardcoded_secrets",
                      regex |-> SecretRegex,
                      file_types |-> <<"*">>,
                      reason |-> "Hardcoded secrets detected"] >>]]

\* Policy::default(): every list empty
EmptyPolicy ==
    [name |-> "",
     languages |-> [tier1 |-> <<>>, tier2 |-> <<>>, forbidden |-> <<>>, exceptions |-> <<>>],
     toolchain |-> [rules |-> <<>>],
     patterns |-> [forbidden_patterns |-> <<>>]]

\* a policy file whose second pattern is not a regular expression
BadRegexPolicy ==
    [rsr_default EXCEPT
       !.name = "Bad Regex Policy",
       !.patterns.forbidden_patterns =
           @ \o << [name |-> "broken", regex |-> "(unclosed",
                    file_types |-> <<"*">>, reason |-> "malformed"] >>]

\* a policy file with its own languages, two toolchain rules and a literal pattern
CustomPolicy ==
    [name |-> "Custom Policy",
     languages |->
       [tier1 |-> <<>>,
        tier2 |-> << LanguageConfig("racket", <<".rkt">>, <<"#lang">>),
                     LanguageConfig("json", <<".json">>, <<"{\"name\"">>) >>,
        forbidden |->
                  << LanguageConfig("Python", <<".PY">>, <<"Import ">>),
                     LanguageConfig("cobol", <<".ts">>, <<"npm">>),
                     LanguageConfig("Kotlin", <<".kt">>, <<"fun main">>),
                     LanguageConfig("SWIFT", <<".swift">>, <<"SwiftUI">>) >>,
        exceptions |->
                  << [language |-> "PYTHON", allowed_paths |-> <<"salt/">>,
                      reason |-> "Salt states"],
                     [language |-> "python", allowed_paths |-> <<"app">>,
                      reason |-> "application glue"] >>],
     toolchain |->
       [rules |-> << [tool |-> "yarn",
                      tool_markers |-> <<"Package.JSON">>,
                      requires |-> "deno",
                      requires_markers |-> <<"DENO.json">>],
                     [tool |-> "pip",
                      tool_markers |-> <<".py">>,
                      requires |-> "salt",
                      requires_markers |-> <<"salt/">>] >>],
     patterns |->
       [forbidden_patterns |->
                  << [name |-> "no_secret_word", regex |-> "secret",
                      file_types |-> <<"*">>, reason |-> "mentions a secret"] >>]]

Policies == {rsr_default, EmptyPolicy, BadRegexPolicy, CustomPolicy}

LanguageStrings(lang) == {lang.name} \cup Range(lang.markers) \cup Range(lang.extensions)

\* every string a policy holds that the oracle compares with a proposal
PolicyStrings(pol) ==
    UNION ( {LanguageStrings(l) : l \in Range(pol.languages.tier2)
                                      \cup Range(pol.languages.forbidden)}
            \cup {{e.language} \cup Range(e.allowed_paths) :
                      e \in Range(pol.languages.exceptions)}
            \cup {Range(r.tool_markers) \cup Range(r.requires_markers) :
                      r \in Range(pol.toolchain.rules)} )

\* ------------------------------------------------------------------ inputs

Pad29 == "aaaaaaaaaaaaaaaaaaaaaaaaaaaaa"

RustContent == "fn main() { println!(\"Hello\"); }"
TypeScriptContent == "export const foo: string = 'bar';"
SecretContent == "let password = \"supersecret123456\""
WideBeforeContent == "~" \o Pad29 \o ": string"
WideAfterContent == ": string" \o Pad29 \o "~"
GoContent == "package main"
JavaContent == "public class Main {}"
KotlinContent == "fun main() {}"
SwiftContent == "SwiftUI.Text(\"hi\")"

Contents ==
    { "", RustContent, TypeScriptContent, SecretContent,
      "import os", "IMPORT OS; npm install", "{\"name\": \"test\"}",
      "#lang racket", "#lang racket\nimport os",
      "x: string; secret = 'abcdefgh'; npm install", "see deno.json",
      WideBeforeContent, WideAfterContent, "~a" \o Pad29 \o ": string",
      GoContent, JavaContent, KotlinContent, SwiftContent }

FileNames ==
    { "src/main.rs", "src/utils.ts", "salt/config.py", "app.py",
      "package.json", "deno.json", "deno.json.d.ts" }

FileLists == UNION {[1..n -> FileNames] : n \in 0..MaxFiles}

\* ----------------------------------------------------------------- strings

Char(s, i) == SubSeq(s, i, i)

UpperAlpha == "ABCDEFGHIJKLMNOPQRSTUVWXYZ"
LowerAlpha == "abcdefghijklmnopqrstuvwxyz"

\* char::to_lowercase on the characters of the model's alphabet
LowerTable ==
    [c \in {Char(UpperAlpha, i) : i \in 1..26} |->
        Char(LowerAlpha, CHOOSE i \in 1..26 : Char(UpperAlpha, i) = c)]

LowerChar(c) == IF c \in DOMAIN LowerTable THEN LowerTable[c] ELSE c

RECURSIVE LowerFrom(_, _)
LowerFrom(s, i) ==
    IF i > Len(s) THEN "" ELSE LowerChar(Char(s, i)) \o LowerFrom(s, i + 1)

\* the strings of the inputs: a proposal's and a policy's
ProposalStrings == Contents \cup FileNames
RuleStrings == UNION {PolicyStrings(pol) : pol \in Policies}

\* str::to_lowercase of every string of the inputs
LowerOf == [s \in ProposalStrings \cup RuleStrings |-> LowerFrom(s, 1)]

\* str::to_lowercase
ToLower(s) == LowerOf[s]

\* UTF-8 width of a character
Width(c) == IF c = "~" THEN 2 ELSE 1

RECURSIVE OffsetsFrom(_, _, _)
OffsetsFrom(s, i, b) ==
    IF i > Len(s) THEN <<b>>
    ELSE <<b>> \o OffsetsFrom(s, i + 1, b + Width(Char(s, i)))

\* the byte offset of every character of s, and of its end
ByteOffsets(s) == OffsetsFrom(s, 1, 0)

\* str::len: the length in bytes
ByteLen(s) == ByteOffsets(s)[Len(s) + 1]

OccursAt(hay, needle, i) ==
    /\ i + Len(needle) - 1 <= Len(hay)
    /\ SubSeq(hay, i, i + Len(needle) - 1) = needle

RECURSIVE IndexFrom(_, _, _)
\* the character index of the first occurrence of needle at or after i, or 0
IndexFrom(hay, needle, i) ==
    IF i + Len(needle) - 1 > Len(hay) THEN 0
    ELSE IF OccursAt(hay, needle, i) THEN i
    ELSE IndexFrom(hay, needle, i + 1)

\* str::contains of every string of a proposal, as given and lowercased, against
\* every string of a policy, as given and lowercased
Haystacks == ProposalStrings \cup {LowerFrom(s, 1) : s \in ProposalStrings}
Needles == RuleStrings \cup {LowerFrom(s, 1) : s \in RuleStrings}
ContainsOf ==
    [hay \in Haystacks |-> [needle \in Needles |-> IndexFrom(hay, needle, 1) # 0]]

\* str::contains
Contains(hay, needle) == ContainsOf[hay][needle]

\* Some(byte offset of character i) or None when i = 0
OffsetOf(hay, i) == IF i = 0 THEN None ELSE Some(ByteOffsets(hay)[i])

\* str::find: Some(byte offset of the first occurrence) or None
Find(hay, needle) == OffsetOf(hay, IndexFrom(hay, needle, 1))

\* str::ends_with
EndsWith(s, suffix) ==
    /\ Len(suffix) <= Len(s)
    /\ SubSeq(s, Len(s) - Len(suffix) + 1, Len(s)) = suffix

\* str::is_char_boundary for an offset within the string
IsCharBoundary(offsets, b) == \E i \in DOMAIN offsets : offsets[i] = b

\* the character index of a byte offset that is a character boundary
CharIndex(offsets, b) == CHOOSE i \in DOMAIN offsets : offsets[i] = b

\* &s[start..end] on byte offsets: panics unless start <= end <= len and both are
\* character boundaries
SliceOk(s, start, end) ==
    /\ start <= end
    /\ end <= ByteLen(s)
    /\ IsCharBoundary(ByteOffsets(s), start)
    /\ IsCharBoundary(ByteOffsets(s), end)

Slice(s, start, end) ==
    SubSeq(s, CharIndex(ByteOffsets(s), start), CharIndex(ByteOffsets(s), end) - 1)

\* ------------------------------------------------------------------- regex

RECURSIVE ParenDepth(_, _, _)
\* -1 when a group is closed that was never opened, else the groups left open
ParenDepth(src, i, depth) ==
    IF i > Len(src) THEN depth
    ELSE IF Char(src, i) = "(" THEN ParenDepth(src, i + 1, depth + 1)
    ELSE IF Char(src, i) = ")"
         THEN IF depth = 0 THEN 0 - 1 ELSE ParenDepth(src, i + 1, depth - 1)
    ELSE ParenDepth(src, i + 1, depth)

Whitespace == " \t\n\r"

\* the compiled program of a pattern: a sequence of items, each an alternation of
\* literals or a character class repeated min times (or min and more)
RegexProgram(src) ==
    IF src = SecretRegex
    THEN [ci |-> TRUE,
          prog |-> << [k |-> "alt", alts |-> <<"password", "secret", "api_key">>],
                      [k |-> "cls", chars |-> Whitespace, neg |-> FALSE, min |-> 0, more |-> TRUE],
                      [k |-> "cls", chars |-> "=", neg |-> FALSE, min |-> 1, more |-> FALSE],
                      [k |-> "cls", chars |-> Whitespace, neg |-> FALSE, min |-> 0, more |-> TRUE],
                      [k |-> "cls", chars |-> "\"'", neg |-> FALSE, min |-> 1, more |-> FALSE],
                      [k |-> "cls", chars |-> "\"'", neg |-> TRUE, min |-> 8, more |-> TRUE],
                      [k |-> "cls", chars |-> "\"'", neg |-> FALSE, min |-> 1, more |-> FALSE] >>]
    ELSE [ci |-> FALSE, prog |-> << [k |-> "alt", alts |-> <<src>>] >>]

\* Regex::new(&pattern.regex): Err for an unbalanced group
RegexNew(src) ==
    IF ParenDepth(src, 1, 0) = 0
    THEN [ok |-> TRUE, re |-> RegexProgram(src)]
    ELSE [ok |-> FALSE]

InClass(item, c) == (IndexFrom(item.chars, c, 1) # 0) # item.neg

\* the repetitions a character class may take at position i
Repetitions(item, s, i) ==
    item.min..(IF item.more THEN Len(s) - i + 1 ELSE item.min)

RECURSIVE MatchFrom(_, _, _, _)
RECURSIVE MatchItem(_, _, _, _, _)
MatchItem(prog, k, item, s, i) ==
    IF item.k = "alt"
    THEN \E a \in Range(item.alts) :
            /\ OccursAt(s, a, i)
            /\ MatchFrom(prog, k + 1, s, i + Len(a))
    ELSE \E n \in Repetitions(item, s, i) :
            /\ i + n - 1 <= Len(s)
            /\ \A j \in i..(i + n - 1) : InClass(item, Char(s, j))
            /\ MatchFrom(prog, k + 1, s, i + n)

MatchFrom(prog, k, s, i) ==
    IF k > Len(prog) THEN TRUE ELSE MatchItem(prog, k, prog[k], s, i)

SearchIn(prog, text) == \E i \in 1..(Len(text) + 1) : MatchFrom(prog, 1, text, i)

\* an unanchored search
Search(re, s) == SearchIn(re.prog, IF re.ci THEN ToLower(s) ELSE s)

\* Regex::is_match of every pattern of the policies on every content of the inputs
RegexSources == {p.regex : p \in UNION {Range(pol.patterns.forbidden_patterns) : pol \in Policies}}
MatchOf ==
    [src \in {r \in RegexSources : RegexNew(r).ok} |->
        [s \in Contents |-> Search(RegexNew(src).re, s)]]

\* Regex::is_match, for the regex compiled from src
IsMatch(src, s) == MatchOf[src][s]

\* ------------------------------------------------------------------ oracle

\* the +-30 bytes of extract_context
ContextRadius == 30

Proposal(content, files_affected) ==
    [content |-> content, files_affected |-> files_affected]

\* files_affected.first().cloned().unwrap_or_default()
FirstOrDefault(files) == IF files = <<>> THEN "" ELSE files[1]

content_contains_language(content, lang) ==
    \E m \in Range(lang.markers) : Contains(ToLower(content), ToLower(m))

file_matches_language(file, lang) ==
    \E ext \in Range(lang.extensions) : EndsWith(ToLower(file), ToLower(ext))

content_has_markers(content, markers) ==
    \E m \in Range(markers) : Contains(ToLower(content), ToLower(m))

files_have_markers(files, markers) ==
    \E file \in Range(files) :
        \E marker \in Range(markers) : Contains(ToLower(file), ToLower(marker))

\* a variant of check_exception that honours no exception
check_exception_never(pol, files, language) == FALSE

check_exception(pol, files, language) ==
    \E exc \in Range(pol.languages.exceptions) :
        /\ ToLower(exc.language) = ToLower(language)
        /\ \E file \in Range(files) :
              \E allowed \in Range(exc.allowed_paths) : Contains(file, allowed)

\* extract_context, line 460: the slice content[start..end] panics off a character
\* boundary
ContextSlice(content, start, end) ==
    IF SliceOk(content, start, end)
    THEN [panic |-> FALSE, text |-> "..." \o Slice(content, start, end) \o "..."]
    ELSE [panic |-> TRUE, text |-> ""]

\* extract_context, lines 458-460, for the marker found at byte offset pos
ContextWindow(content, marker, pos) ==
    ContextSlice(content,
                 SaturatingSub(pos, ContextRadius),
                 Min(pos + ByteLen(marker) + ContextRadius, ByteLen(content)))

RECURSIVE ContextFrom(_, _, _)
RECURSIVE ContextAt(_, _, _, _)
\* extract_context, line 457: found is what find returned for marker k
ContextAt(content, markers, k, found) ==
    IF IsSome(found)
    THEN ContextWindow(content, markers[k], Unwrap(found))
    ELSE ContextFrom(content, markers, k + 1)

\* extract_context, the loop from marker k on
ContextFrom(content, markers, k) ==
    IF k > Len(markers)
    THEN [panic |-> FALSE, text |-> ""]
    ELSE ContextAt(content, markers, k, Find(ToLower(content), ToLower(markers[k])))

\* extract_context of every content of the inputs for every marker list of a
\* forbidden language
MarkerLists == {l.markers : l \in UNION {Range(pol.languages.forbidden) : pol \in Policies}}
ContextOf ==
    [content \in Contents |-> [markers \in MarkerLists |->
        ContextFrom(content, markers, 1)]]

\* Oracle::extract_context: the text, or the panic of its slice
extract_context(content, markers) == ContextOf[content][markers]

\* check_proposal, lines 238-240
ContentScanHit(pol, proposal, lang) ==
    /\ content_contains_language(proposal.content, lang)
    /\ ~check_exception(pol, proposal.files_affected, lang.name)

\* check_proposal, lines 241-249
ContentViolation(proposal, lang) ==
    [rule |-> "forbidden_language:" \o lang.name,
     violation_type |->
        [kind |-> "ForbiddenLanguage",
         language |-> lang.name,
         file |-> FirstOrDefault(proposal.files_affected),
         context |-> extract_context(proposal.content, lang.markers).text],
     severity |-> "Critical"]

\* check_proposal, lines 235-252: forbidden languages in the content
ContentScan(pol, proposal) ==
    Flatten([i \in DOMAIN pol.languages.forbidden |->
        IF ContentScanHit(pol, proposal, pol.languages.forbidden[i])
        THEN << ContentViolation(proposal, pol.languages.forbidden[i]) >>
        ELSE <<>>])

ContentScanPanics(pol, proposal) ==
    \E lang \in Range(pol.languages.forbidden) :
        /\ ContentScanHit(pol, proposal, lang)
        /\ extract_context(proposal.content, lang.markers).panic

\* check_proposal, lines 258-260
PathScanHit(pol, file, lang) ==
    /\ file_matches_language(file, lang)
    /\ ~check_exception(pol, <<file>>, lang.name)

\* check_proposal, lines 261-272
PathViolation(file, lang) ==
    [rule |-> "forbidden_file_extension:" \o lang.name,
     violation_type |->
        [kind |-> "ForbiddenLanguage",
         language |-> lang.name,
         file |-> file,
         context |-> "File extension matches forbidden language: " \o lang.name],
     severity |-> "Critical"]

\* check_proposal, lines 257-275: one affected file against each forbidden language
PathScanFile(pol, file) ==
    Flatten([i \in DOMAIN pol.languages.forbidden |->
        IF PathScanHit(pol, file, pol.languages.forbidden[i])
        THEN << PathViolation(file, pol.languages.forbidden[i]) >>
        ELSE <<>>])

\* check_proposal, lines 254-276: forbidden languages in the file paths
PathScan(pol, proposal) ==
    Flatten([f \in DOMAIN proposal.files_affected |->
        PathScanFile(pol, proposal.files_affected[f])])

\* a variant of ToolchainHit that looks for the requires markers in the content only
ToolchainHit_content_only(proposal, rule) ==
    /\ \/ content_has_markers(proposal.content, rule.tool_markers)
       \/ files_have_markers(proposal.files_affected, rule.tool_markers)
    /\ ~content_has_markers(proposal.content, rule.requires_markers)

\* check_proposal, lines 281-286
ToolchainHit(proposal, rule) ==
    /\ \/ content_has_markers(proposal.content, rule.tool_markers)
       \/ files_have_markers(proposal.files_affected, rule.tool_markers)
    /\ ~ \/ content_has_markers(proposal.content, rule.requires_markers)
         \/ files_have_markers(proposal.files_affected, rule.requires_markers)

\* check_proposal, lines 287-294
ToolchainViolation(rule) ==
    [rule |-> "toolchain:" \o rule.tool \o ":" \o rule.requires,
     violation_type |->
        [kind |-> "ForbiddenToolchain", tool |-> rule.tool, missing |-> rule.requires],
     severity |-> "High"]

\* check_proposal, lines 278-296: toolchain rules
ToolchainScan(pol, proposal) ==
    Flatten([i \in DOMAIN pol.toolchain.rules |->
        IF ToolchainHit(proposal, pol.toolchain.rules[i])
        THEN << ToolchainViolation(pol.toolchain.rules[i]) >>
        ELSE <<>>])

\* check_proposal, lines 300-301: the `?` on Regex::new returns the error
PatternScanFails(pol) ==
    \E p \in Range(pol.patterns.forbidden_patterns) : ~RegexNew(p.regex).ok

\* check_proposal, lines 303-310
PatternViolation(proposal, pattern) ==
    [rule |-> "pattern:" \o pattern.name,
     violation_type |->
        [kind |-> "ForbiddenPattern",
         pattern |-> pattern.name,
         file |-> FirstOrDefault(proposal.files_affected)],
     severity |-> "High"]

\* check_proposal, lines 298-312: forbidden patterns, each regex compiling
PatternScan(pol, proposal) ==
    Flatten([i \in DOMAIN pol.patterns.forbidden_patterns |->
        IF IsMatch(pol.patterns.forbidden_patterns[i].regex, proposal.content)
        THEN << PatternViolation(proposal, pol.patterns.forbidden_patterns[i]) >>
        ELSE <<>>])

\* check_proposal, lines 318-327
Tier2Concern(lang) ==
    [rule |-> "tier2_language:" \o lang.name,
     concern_type |-> [kind |-> "Tier2Language", language |-> lang.name],
     suggestion |-> "Consider using a Tier 1 language instead of " \o lang.name]

\* check_proposal, lines 314-329: tier-2 languages
Tier2Scan(pol, proposal) ==
    Flatten([i \in DOMAIN pol.languages.tier2 |->
        IF content_contains_language(proposal.content, pol.languages.tier2[i])
        THEN << Tier2Concern(pol.languages.tier2[i]) >>
        ELSE <<>>])

\* a variant of CollectViolations that scans the paths before the content
CollectViolations_paths_first(pol, proposal) ==
    PathScan(pol, proposal) \o ContentScan(pol, proposal)
        \o ToolchainScan(pol, proposal) \o PatternScan(pol, proposal)

\* check_proposal, lines 231-312: the violations in scan order
CollectViolations(pol, proposal) ==
    ContentScan(pol, proposal) \o PathScan(pol, proposal)
        \o ToolchainScan(pol, proposal) \o PatternScan(pol, proposal)

\* a variant of SelectVerdict that looks at the concerns first
SelectVerdict_concerns_first(violations, concerns) ==
    IF concerns # <<>>
    THEN [tag |-> "SoftConcern", concern |-> concerns[1].concern_type]
    ELSE IF violations # <<>>
    THEN [tag |-> "HardViolation", violation |-> violations[1].violation_type]
    ELSE [tag |-> "Compliant"]

\* check_proposal, lines 331-337
SelectVerdict(violations, concerns) ==
    IF violations # <<>>
    THEN [tag |-> "HardViolation", violation |-> violations[1].violation_type]
    ELSE IF concerns # <<>>
    THEN [tag |-> "SoftConcern", concern |-> concerns[1].concern_type]
    ELSE [tag |-> "Compliant"]

\* check_proposal, lines 339-345
OracleEvaluation(violations, concerns) ==
    [verdict |-> SelectVerdict(violations, concerns),
     rules_checked |-> <<"forbidden_languages_content", "forbidden_languages_files",
                         "toolchain_rules", "forbidden_patterns", "tier2_languages">>,
     violations |-> violations,
     concerns |-> concerns]

\* Oracle::check_proposal.  Ok(OracleEvaluation); Err(RegexError) from the `?` of
\* the pattern scan, reached with the three earlier scans done (rules_checked is
\* the local list at that point); or a panic out of extract_context.
check_proposal(pol, proposal) ==
    IF ContentScanPanics(pol, proposal)
    THEN [kind |-> "panic", rules_checked |-> <<"forbidden_languages_content">>]
    ELSE IF PatternScanFails(pol)
    THEN [kind |-> "err", error |-> "RegexError",
          rules_checked |-> <<"forbidden_languages_content", "forbidden_languages_files",
                              "toolchain_rules", "forbidden_patterns">>]
    ELSE [kind |-> "ok",
          eval |-> OracleEvaluation(CollectViolations(pol, proposal),
                                    Tier2Scan(pol, proposal))]

\* ---------------------------------------------------------------- contract

CONTRACT_VERSION == "0.1.0"

Verdicts == {"Allow", "Warn", "Escalate", "Block"}

\* Verdict::exit_code
exit_code(verdict) ==
    CASE verdict = "Allow" -> 0
      [] verdict = "Warn" -> 2
      [] verdict = "Escalate" -> 3
      [] verdict = "Block" -> 1

\* enum AuthorizationLevel with its discriminants
AuthorizationLevel == [User |-> 1, Maintainer |-> 2, Admin |-> 3, None |-> 100]

Evidence(evidence_type, file, match_content, explanation) ==
    [evidence_type |-> evidence_type, file |-> file, line |-> None,
     match_content |-> match_content, explanation |-> explanation]

\* ContractRunner::map_concern
map_concern(concern) ==
    CASE concern.kind = "VerbositySmell" ->
           [category |-> "VerbositySmell", code |-> "Spirit500Verbosity",
            message |-> "Excessive verbosity detected"]
      [] concern.kind = "PatternDeviation" ->
           [category |-> "StructuralAnomaly", code |-> "Spirit505IntentMismatch",
            message |-> "Unusual pattern deviation detected"]
      [] concern.kind = "UnusualStructure" ->
           [category |-> "StructuralAnomaly", code |-> "Spirit505IntentMismatch",
            message |-> "Unusual code structure detected"]
      [] concern.kind = "Tier2Language" ->
           [category |-> "ForbiddenLanguage", code |-> "Lang199OtherForbidden",
            message |-> "Tier 2 language '" \o concern.language
                           \o "' - consider Tier 1 alternative"]

\* enum RefusalCode, its variants by the group they are declared in
RefusalCode ==
    [Lang |-> {"Lang100TypeScript", "Lang101Python", "Lang102Go", "Lang103Java",
               "Lang104Kotlin", "Lang105Swift", "Lang199OtherForbidden"},
     Tool |-> {"Tool200NpmWithoutDeno", "Tool201YarnWithoutDeno", "Tool202NodeModules",
               "Tool203PackageJson", "Tool299OtherToolchain"},
     Sec |-> {"Sec300HardcodedSecret", "Sec301InsecureHash", "Sec302HttpUrl",
              "Sec303CommandInjection", "Sec304SqlInjection", "Sec399OtherSecurity"},
     Pat |-> {"Pat400ForbiddenImport", "Pat401UnsafeBlock", "Pat499OtherPattern"},
     Spirit |-> {"Spirit500Verbosity", "Spirit501OverDocumentation",
                 "Spirit502RedundantComments", "Spirit503BoilerplateCode",
                 "Spirit504MetaCommentary", "Spirit505IntentMismatch",
                 "Spirit599OtherSpirit"},
     Sys |-> {"Sys900InvalidRequest", "Sys901RateLimited", "Sys902InternalError",
              "Sys999Unknown"}]

RefusalCodes == UNION {RefusalCode[family] : family \in DOMAIN RefusalCode}

\* a variant of numeric that gives every code the first number of its group
numeric_group(code) ==
    CASE code \in RefusalCode.Lang -> 100
      [] code \in RefusalCode.Tool -> 200
      [] code \in RefusalCode.Sec -> 300
      [] code \in RefusalCode.Pat -> 400
      [] code \in RefusalCode.Spirit -> 500
      [] code \in RefusalCode.Sys -> 900

\* RefusalCode::numeric
numeric(code) ==
    CASE code = "Lang100TypeScript" -> 100
      [] code = "Lang101Python" -> 101
      [] code = "Lang102Go" -> 102
      [] code = "Lang103Java" -> 103
      [] code = "Lang104Kotlin" -> 104
      [] code = "Lang105Swift" -> 105
      [] code = "Lang199OtherForbidden" -> 199
      [] code = "Tool200NpmWithoutDeno" -> 200
      [] code = "Tool201YarnWithoutDeno" -> 201
      [] code = "Tool202NodeModules" -> 202
      [] code = "Tool203PackageJson" -> 203
      [] code = "Tool299OtherToolchain" -> 299
      [] code = "Sec300HardcodedSecret" -> 300
      [] code = "Sec301InsecureHash" -> 301
      [] code = "Sec302HttpUrl" -> 302
      [] code = "Sec303CommandInjection" -> 303
      [] code = "Sec304SqlInjection" -> 304
      [] code = "Sec399OtherSecurity" -> 399
      [] code = "Pat400ForbiddenImport" -> 400
      [] code = "Pat401UnsafeBlock" -> 401
      [] code = "Pat499OtherPattern" -> 499
      [] code = "Spirit500Verbosity" -> 500
      [] code = "Spirit501OverDocumentation" -> 501
      [] code = "Spirit502RedundantComments" -> 502
      [] code = "Spirit503BoilerplateCode" -> 503
      [] code = "Spirit504MetaCommentary" -> 504
      [] code = "Spirit505IntentMismatch" -> 505
      [] code = "Spirit599OtherSpirit" -> 599
      [] code = "Sys900InvalidRequest" -> 900
      [] code = "Sys901RateLimited" -> 901
      [] code = "Sys902InternalError" -> 902
      [] code = "Sys999Unknown" -> 999

\* a variant of LanguageCode that gives every language the catch-all code
LanguageCode_other(lowered) == "Lang199OtherForbidden"

\* map_violation, lines 786-794, on language.to_lowercase()
LanguageCode(lowered) ==
    CASE lowered = "typescript" -> "Lang100TypeScript"
      [] lowered = "python" -> "Lang101Python"
      [] lowered = "go" -> "Lang102Go"
      [] lowered = "java" -> "Lang103Java"
      [] lowered = "kotlin" -> "Lang104Kotlin"
      [] lowered = "swift" -> "Lang105Swift"
      [] OTHER -> "Lang199OtherForbidden"

\* map_violation, lines 796-804, on language.to_lowercase()
LanguageRemediation(lowered) ==
    CASE lowered = "typescript" -> Some("Use ReScript instead of TypeScript")
      [] lowered = "python" -> Some("Python is only allowed in salt/ for SaltStack configs")
      [] lowered = "go" -> Some("Use Rust instead of Go")
      [] lowered = "java" -> Some("Use Rust/Tauri/Dioxus instead of Java")
      [] OTHER -> None

\* ContractRunner::map_violation
map_violation(v) ==
    CASE v.kind = "ForbiddenLanguage" ->
           [category |-> "ForbiddenLanguage",
            code |-> LanguageCode(ToLower(v.language)),
            message |-> "Forbidden language '" \o v.language \o "' detected",
            evidence |-> << Evidence("ContentMarker", Some(v.file), v.context,
                                     v.language \o " code detected") >>,
            remediation |-> LanguageRemediation(ToLower(v.language))]
      [] v.kind = "ForbiddenToolchain" ->
           [category |-> "ForbiddenToolchain",
            code |-> "Tool200NpmWithoutDeno",
            message |-> "Toolchain violation: " \o v.tool \o " requires " \o v.missing,
            evidence |-> << Evidence("FileExtension", None, v.tool,
                                     v.tool \o " detected without " \o v.missing) >>,
            remediation |-> Some("Add " \o v.missing \o " to use " \o v.tool)]
      [] v.kind = "SecurityViolation" ->
           [category |-> "SecurityViolation",
            code |-> "Sec300HardcodedSecret",
            message |-> "Security violation: " \o v.description,
            evidence |-> <<>>,
            remediation |-> Some("Remove hardcoded secrets and use environment variables")]
      [] v.kind = "ForbiddenPattern" ->
           [category |-> "ForbiddenPattern",
            code |-> "Pat499OtherPattern",
            message |-> "Forbidden pattern '" \o v.pattern \o "' detected",
            evidence |-> << Evidence("RegexMatch", Some(v.file), v.pattern,
                                     "Pattern matched forbidden regex") >>,
            remediation |-> None]

\* a variant of WarnRefusal that asks for the highest tier
WarnRefusal_admin(m) ==
    [category |-> m.category,
     code |-> m.code,
     message |-> m.message,
     remediation |-> Some("Consider refactoring to address the concern"),
     evidence |-> <<>>,
     overridable |-> TRUE,
     override_level |-> Some("Admin")]

\* process_oracle_result, lines 713-721: the refusal of a soft concern mapped to m
WarnRefusal(m) ==
    [category |-> m.category,
     code |-> m.code,
     message |-> m.message,
     remediation |-> Some("Consider refactoring to address the concern"),
     evidence |-> <<>>,
     overridable |-> TRUE,
     override_level |-> Some("User")]

\* a variant of BlockRefusal that drops the evidence
BlockRefusal_bare(m) ==
    [category |-> m.category,
     code |-> m.code,
     message |-> m.message,
     remediation |-> m.remediation,
     evidence |-> <<>>,
     overridable |-> FALSE,
     override_level |-> Some("None")]

\* process_oracle_result, lines 730-738: the refusal of a hard violation mapped to m
BlockRefusal(m) ==
    [category |-> m.category,
     code |-> m.code,
     message |-> m.message,
     remediation |-> m.remediation,
     evidence |-> m.evidence,
     overridable |-> FALSE,
     override_level |-> Some("None")]

\* a variant of process_oracle_result that warns without a refusal
process_oracle_result_unrefused(eval) ==
    CASE eval.verdict.tag = "Compliant" ->
           [verdict |-> "Allow", refusal |-> None]
      [] eval.verdict.tag = "SoftConcern" ->
           [verdict |-> "Warn", refusal |-> None]
      [] eval.verdict.tag = "HardViolation" ->
           [verdict |-> "Block",
            refusal |-> Some(BlockRefusal(map_violation(eval.verdict.violation)))]

\* ContractRunner::process_oracle_result: (verdict, refusal)
process_oracle_result(eval) ==
    CASE eval.verdict.tag = "Compliant" ->
           [verdict |-> "Allow", refusal |-> None]
      [] eval.verdict.tag = "SoftConcern" ->
           [verdict |-> "Warn",
            refusal |-> Some(WarnRefusal(map_concern(eval.verdict.concern)))]
      [] eval.verdict.tag = "HardViolation" ->
           [verdict |-> "Block",
            refusal |-> Some(BlockRefusal(map_violation(eval.verdict.violation)))]

CONTRACT_SCHEMA == "conative-gating-contract-v1"

\* RequestContext::default()
DefaultContext ==
    [source |-> "", session_id |-> None, agent_id |-> None, repository |-> None,
     session_history |-> <<>>, metadata |-> <<>>]

\* the context of a request made within a session on a repository
SessionContext ==
    [source |-> "claude-code",
     session_id |-> Some("session-1"),
     agent_id |-> Some("agent-1"),
     repository |-> Some([name |-> "conative-gating", default_branch |-> Some("main"),
                          policy_file |-> None, is_new |-> FALSE]),
     session_history |-> <<"7d9f2c1e-0000-4000-8000-000000000000">>,
     metadata |-> [ticket |-> "42"]]

\* GatingRequest::new(proposal); one string stands for the Uuid::new_v4() of the
\* call, and the timestamp is left out
GatingRequest(proposal) ==
    [request_id |-> "1b4e28ba-0000-4000-8000-000000000001",
     proposal |-> proposal,
     context |-> DefaultContext,
     policy_override |-> None]

\* GatingRequest::with_policy
with_policy(req, pol) == [req EXCEPT !.policy_override = Some(pol)]

\* a request read from a file that gives its own id and context
SessionRequest(proposal) ==
    [request_id |-> "6fa459ea-0000-4000-8000-000000000002",
     proposal |-> proposal,
     context |-> SessionContext,
     policy_override |-> None]

\* evaluate, lines 681-699: the decision over the oracle's evaluation and the pair
\* process_oracle_result made of it.  The fresh ids, the timestamp and the measured
\* duration are left out.
GatingDecision(pol, oracle_eval, vr) ==
    [verdict |-> vr.verdict,
     refusal |-> vr.refusal,
     evaluations |-> [oracle |-> Some(oracle_eval), slm |-> None, arbiter |-> None],
     processing |-> [contract_version |-> CONTRACT_VERSION,
                     policy_name |-> pol.name,
                     rules_checked |-> Len(oracle_eval.rules_checked),
                     stages_executed |-> <<"oracle">>]]

\* evaluate, lines 674-699, on what check_proposal came to: the `?` turns the
\* oracle's Err into Err(ContractError::OracleError), a panic unwinds
Decided(pol, checked) ==
    CASE checked.kind = "panic" -> [kind |-> "panic"]
      [] checked.kind = "err" ->
           [kind |-> "err", error |-> "OracleError", source |-> checked.error,
            rules_checked |-> checked.rules_checked]
      [] checked.kind = "ok" ->
           [kind |-> "ok",
            decision |-> GatingDecision(pol, checked.eval,
                                        process_oracle_result(checked.eval))]

\* ContractRunner::evaluate on a runner built over pol
\* a variant of evaluate that leaves the content of a request of a session unread
evaluate_session_exempt(pol, req) ==
    Decided(pol, check_proposal(pol, IF req.context = SessionContext
                                     THEN Proposal("", req.proposal.files_affected)
                                     ELSE req.proposal))

evaluate(pol, req) == Decided(pol, check_proposal(pol, req.proposal))

\* ----------------------------------------------------------------- harness

TestCase(name, content, files, expected_verdict, expected_category) ==
    [name |-> name, request |-> GatingRequest(Proposal(content, files)),
     expected_verdict |-> expected_verdict, expected_category |-> expected_category]

\* run_test, lines 950-954
category_matches(expected_category, refusal) ==
    IF IsSome(expected_category) /\ IsSome(refusal)
    THEN Unwrap(refusal).category = Unwrap(expected_category)
    ELSE expected_category = None /\ refusal = None

\* Option::map(|r| r.category)
CategoryOf(refusal) == IF IsSome(refusal) THEN Some(Unwrap(refusal).category) ELSE None

\* run_test, lines 956-977
Compared(test, decision, passed) ==
    [name |-> test.name,
     passed |-> passed,
     actual_verdict |-> decision.verdict,
     expected_verdict |-> test.expected_verdict,
     actual_category |-> CategoryOf(decision.refusal),
     error |-> IF passed THEN None
               ELSE Some(<<"Expected", test.expected_verdict, test.expected_category,
                           "got", decision.verdict, CategoryOf(decision.refusal)>>)]

\* a variant of Failed that fails open
Failed_open(test, r) ==
    [name |-> test.name,
     passed |-> test.expected_verdict = "Allow",
     actual_verdict |-> "Allow",
     expected_verdict |-> test.expected_verdict,
     actual_category |-> None,
     error |-> Some(r.error)]

\* run_test, lines 979-987
Failed(test, r) ==
    [name |-> test.name,
     passed |-> FALSE,
     actual_verdict |-> "Block",
     expected_verdict |-> test.expected_verdict,
     actual_category |-> None,
     error |-> Some(r.error)]

\* TestHarness::run_test, lines 947-988: the TestResult of a test whose evaluation
\* returned r
test_result(test, r) ==
    IF r.kind = "ok"
    THEN Compared(test, r.decision,
                  /\ r.decision.verdict = test.expected_verdict
                  /\ category_matches(test.expected_category, r.decision.refusal))
    ELSE Failed(test, r)

\* ---------------------------------------------------------------- audit

\* the ASCII characters from the space (32) to the underscore (95), and from the
\* small a (97) to the closing brace (125)
AsciiFrom32 == " !\"#$%&'()*+,-./0123456789:;<=>?@ABCDEFGHIJKLMNOPQRSTUVWXYZ[\\]^_"
AsciiFrom97 == "abcdefghijklmnopqrstuvwxyz{|}"

IndexIn(table, c) == CHOOSE i \in 1..Len(table) : Char(table, i) = c

\* the UTF-8 bytes of a character
Utf8Of ==
    [c \in {Char(AsciiFrom32, i) : i \in 1..Len(AsciiFrom32)}
            \cup {Char(AsciiFrom97, i) : i \in 1..Len(AsciiFrom97)} \cup {"~", "\n"} |->
        IF c = "~" THEN <<195, 169>>
        ELSE IF c = "\n" THEN <<10>>
        ELSE IF \E i \in 1..Len(AsciiFrom97) : Char(AsciiFrom97, i) = c
        THEN << 96 + IndexIn(AsciiFrom97, c) >>
        ELSE << 31 + IndexIn(AsciiFrom32, c) >>]

RECURSIVE BytesFrom(_, _)
BytesFrom(s, i) ==
    IF i > Len(s) THEN <<>> ELSE Utf8Of[Char(s, i)] \o BytesFrom(s, i + 1)

\* str::as_bytes
Bytes(s) == BytesFrom(s, 1)

\* DefaultHasher::new(): the hasher is the bytes written to it, none yet
DefaultHasher_new == <<>>

\* <str as Hash>::hash: the bytes of the string, then 0xff
hash_str(hasher, s) == hasher \o Bytes(s) \o <<255>>

\* a variant of hash over the proposal's content and its first affected file
hash_proposal(hasher, proposal) ==
    hash_str(hash_str(hasher, proposal.content), FirstOrDefault(proposal.files_affected))

RECURSIVE Mixed(_, _, _)
Mixed(state, bytes, i) ==
    IF i > Len(bytes) THEN state
    ELSE Mixed((state * 31 + bytes[i]) % 65536, bytes, i + 1)

\* Hasher::finish: a number fixed by the bytes written, with the keys
\* DefaultHasher::new() always takes; a 16-bit mix stands for the SipHash of std
finish(hasher) == Mixed(Len(hasher), hasher, 1)

HexDigits == "0123456789abcdef"

RECURSIVE HexFrom(_, _)
HexFrom(n, digits) ==
    IF digits = 0 THEN ""
    ELSE HexFrom(n \div 16, digits - 1) \o Char(HexDigits, (n % 16) + 1)

\* format!("{:016x}", n)
Hex16(n) == HexFrom(n, 16)

\* from_decision, lines 562-564, of every content of the inputs
ContentHashOf ==
    [content \in Contents |-> Hex16(finish(hash_str(DefaultHasher_new, content)))]

\* a variant of content_hash over the whole proposal
content_hash_proposal(req) ==
    Hex16(finish(hash_proposal(DefaultHasher_new, req.proposal)))

\* from_decision, lines 562-564
content_hash(req) == ContentHashOf[req.proposal.content]

\* from_decision, lines 566-576, on evaluations.oracle
rules_triggered(oracle) ==
    IF IsSome(oracle)
    THEN [i \in DOMAIN Unwrap(oracle).violations |-> Unwrap(oracle).violations[i].rule]
    ELSE <<>>

\* Option::map over the refusal of a decision
RefusalCodeOf(refusal) ==
    IF IsSome(refusal) THEN Some(numeric(Unwrap(refusal).code)) ELSE None

RepositoryOf(repository) ==
    IF IsSome(repository) THEN Some(Unwrap(repository).name) ELSE None

\* AuditEntry::from_decision; the fresh audit id, the decision id, the timestamp
\* and the duration are left out
from_decision(req, decision) ==
    [schema |-> CONTRACT_SCHEMA,
     request_id |-> req.request_id,
     verdict |-> decision.verdict,
     refusal_code |-> RefusalCodeOf(decision.refusal),
     refusal_category |-> CategoryOf(decision.refusal),
     source |-> req.context.source,
     repository |-> RepositoryOf(req.context.repository),
     session_id |-> req.context.session_id,
     rules_checked |-> IF IsSome(decision.evaluations.oracle)
                       THEN Unwrap(decision.evaluations.oracle).rules_checked
                       ELSE <<>>,
     rules_triggered |-> rules_triggered(decision.evaluations.oracle),
     stages |-> decision.processing.stages_executed,
     contract_version |-> CONTRACT_VERSION,
     content_hash |-> content_hash(req)]

\* ----------------------------------------------------------------- summary

\* TestHarness::summary; the durations are left out
summary(rs) ==
    [total |-> Len(rs),
     passed |-> Cardinality({i \in DOMAIN rs : rs[i].passed}),
     failed |-> Len(rs) - Cardinality({i \in DOMAIN rs : rs[i].passed}),
     results |-> rs]

\* ------------------------------------------------------------- regression

\* from_summary, lines 1106-1113: the baseline entry of one test result
BaselineResult(r) ==
    [name |-> r.name,
     verdict |-> r.actual_verdict,
     category |-> r.actual_category,
     code |-> None,
     contract_version |-> CONTRACT_VERSION]

\* RegressionBaseline::from_summary; the commit and the time of creation are left
\* out
from_summary(sum) ==
    [schema |-> "regression-baseline-v1",
     contract_version |-> CONTRACT_VERSION,
     results |-> [i \in DOMAIN sum.results |-> BaselineResult(sum.results[i])]]

\* a variant of contains_key that finds no name
contains_key_never(entries, name) == FALSE

\* HashMap::contains_key on the map collected from entries by name
contains_key(entries, name) == \E i \in DOMAIN entries : entries[i].name = name

\* HashMap::get on that map: of two entries of one name the later was kept
get(entries, name) ==
    entries[CHOOSE i \in DOMAIN entries :
               /\ entries[i].name = name
               /\ \A j \in DOMAIN entries : entries[j].name = name => j <= i]

\* a variant of Classify that asks first whether the verdict differs
Classify_change_first(b, current) ==
    IF b.verdict # current.actual_verdict THEN "BehaviorChange"
    ELSE IF b.verdict = current.expected_verdict /\ ~current.passed THEN "Regression"
    ELSE IF b.verdict # current.expected_verdict /\ current.passed THEN "Improvement"
    ELSE "Stable"

\* compare, lines 1322-1353: the branch taken for a current result whose name has
\* the baseline entry b
Classify(b, current) ==
    IF b.verdict = current.expected_verdict /\ ~current.passed THEN "Regression"
    ELSE IF b.verdict # current.expected_verdict /\ current.passed THEN "Improvement"
    ELSE IF b.verdict # current.actual_verdict THEN "BehaviorChange"
    ELSE "Stable"

\* compare, lines 1320-1357: the branch taken for a current result
ClassOf(entries, current) ==
    IF contains_key(entries, current.name)
    THEN Classify(get(entries, current.name), current)
    ELSE "New"

\* compare, lines 1326-1333
Regression(b, current) ==
    [test_name |-> current.name,
     baseline_verdict |-> b.verdict,
     current_verdict |-> current.actual_verdict,
     baseline_passed |-> b.verdict = current.expected_verdict,
     current_passed |-> current.passed,
     error_message |-> current.error]

\* compare, lines 1336-1340
Improvement(b, current) ==
    [test_name |-> current.name,
     baseline_verdict |-> b.verdict,
     current_verdict |-> current.actual_verdict]

\* compare, lines 1343-1349
BehaviorChange(b, current) ==
    [test_name |-> current.name,
     baseline_verdict |-> b.verdict,
     current_verdict |-> current.actual_verdict,
     baseline_category |-> b.category,
     current_category |-> current.actual_category]

\* compare, lines 1320-1357: what the loop over the current results pushed for the
\* results of one class
Regressions(entries, rs) ==
    Flatten([i \in DOMAIN rs |->
        IF ClassOf(entries, rs[i]) = "Regression"
        THEN << Regression(get(entries, rs[i].name), rs[i]) >> ELSE <<>>])

Improvements(entries, rs) ==
    Flatten([i \in DOMAIN rs |->
        IF ClassOf(entries, rs[i]) = "Improvement"
        THEN << Improvement(get(entries, rs[i].name), rs[i]) >> ELSE <<>>])

BehaviorChanges(entries, rs) ==
    Flatten([i \in DOMAIN rs |->
        IF ClassOf(entries, rs[i]) = "BehaviorChange"
        THEN << BehaviorChange(get(entries, rs[i].name), rs[i]) >> ELSE <<>>])

StableCount(entries, rs) ==
    Cardinality({i \in DOMAIN rs : ClassOf(entries, rs[i]) = "Stable"})

NewTests(entries, rs) ==
    Flatten([i \in DOMAIN rs |->
        IF ClassOf(entries, rs[i]) = "New" THEN << rs[i].name >> ELSE <<>>])

\* compare, lines 1360-1364
RemovedTests(entries, rs) ==
    Flatten([i \in DOMAIN entries |->
        IF contains_key(rs, entries[i].name) THEN <<>> ELSE << entries[i].name >>])

\* RegressionHarness::compare; the timestamp and the commit are left out
compare(base, rs) ==
    IF base = None
    THEN [current_version |-> CONTRACT_VERSION,
          total_compared |-> 0,
          regressions |-> <<>>,
          improvements |-> <<>>,
          behavior_changes |-> <<>>,
          stable_count |-> 0,
          new_tests |-> [i \in DOMAIN rs |-> rs[i].name],
          removed_tests |-> <<>>]
    ELSE [current_version |-> CONTRACT_VERSION,
          total_compared |-> Len(rs),
          regressions |-> Regressions(Unwrap(base).results, rs),
          improvements |-> Improvements(Unwrap(base).results, rs),
          behavior_changes |-> BehaviorChanges(Unwrap(base).results, rs),
          stable_count |-> StableCount(Unwrap(base).results, rs),
          new_tests |-> NewTests(Unwrap(base).results, rs),
          removed_tests |-> RemovedTests(Unwrap(base).results, rs)]

\* RegressionReport::has_regressions
has_regressions(rep) == rep.regressions # <<>>

\* ------------------------------------------------------------------- tests

TestCases ==
    { TestCase("allows_rust", RustContent, <<"src/main.rs">>, "Allow", None),
      TestCase("blocks_typescript", TypeScriptContent, <<"src/utils.ts">>,
               "Block", Some("ForbiddenLanguage")),
      TestCase("blocks_secret", SecretContent, <<"src/main.rs">>,
               "Block", Some("ForbiddenPattern")),
      TestCase("salt_python", "import os", <<"salt/config.py">>, "Allow", None),
      TestCase("warns_racket", "#lang racket", <<"src/main.rs">>,
               "Warn", Some("ForbiddenLanguage")),
      TestCase("expects_allow", "import os", <<"app.py">>, "Allow", None),
      TestCase("expects_bare_block", TypeScriptContent, <<"src/utils.ts">>, "Block", None),
      TestCase("wide_marker", WideBeforeContent, <<"src/utils.ts">>,
               "Block", Some("ForbiddenLanguage")) }

\* the test files of `regression` as they stand at one time or another: the test
\* "utils" with its proposal or its expectation edited, a second test, and one
\* whose evaluation panics
RegressionCases ==
    { TestCase("utils", RustContent, <<"src/main.rs">>, "Allow", None),
      TestCase("utils", TypeScriptContent, <<"src/utils.ts">>, "Allow", None),
      TestCase("utils", RustContent, <<"src/main.rs">>, "Block", None),
      TestCase("utils", TypeScriptContent, <<"src/utils.ts">>,
               "Block", Some("ForbiddenToolchain")),
      TestCase("warns_racket", "#lang racket", <<"src/main.rs">>,
               "Warn", Some("ForbiddenLanguage")),
      TestCase("wide_marker", WideBeforeContent, <<"src/utils.ts">>,
               "Block", Some("ForbiddenLanguage")) }

\* the test cases load_test_cases returned, not empty
TestFiles == UNION {[1..n -> RegressionCases] : n \in 1..MaxResults}

\* what reading and parsing the request file of `contract eval` can come to
IoOutcomes == {"read_error", "parse_error", "ok"}

\* the exit code of every early return of eval_contract_request
FaultExitCode == 3

\* ----------------------------------------------------------- state machine

\* ContractRunner::new() (rsr_default) or ContractRunner::with_policy(p); a
\* TestHarness built over that runner holds no results yet
Init ==
    /\ policy \in Policies
    /\ request = None
    /\ outcome = None
    /\ previous = None
    /\ results = <<>>
    /\ cliExit = None
    /\ aborted = FALSE
    /\ baseline = None
    /\ saved_summary = None
    /\ current_results = <<>>
    /\ report = None
    /\ audit = None
    /\ redteam = None
    /\ score = None
    /\ scanned = None

\* the runner is driven directly, through the harness or by the CLI, one of the
\* three in a run
Idle == request = None /\ results = <<>> /\ cliExit = None /\ ~aborted

\* the state after runner.evaluate(&req) came to r
Returned(req, r) ==
    /\ request' = Some(req)
    /\ outcome' = IF r.kind = "panic" THEN None ELSE Some(r)
    /\ aborted' = (r.kind = "panic")

\* GatingRequest::new(proposal), then ContractRunner::evaluate
Evaluate ==
    /\ Idle
    /\ \E content \in Contents, files \in FileLists :
          Returned(GatingRequest(Proposal(content, files)),
                   evaluate(policy, GatingRequest(Proposal(content, files))))
    /\ UNCHANGED <<policy, previous, results, cliExit>>
    /\ UNCHANGED <<regressionVars, audit, redteamVars, scanned>>

\* the request of the last evaluation with one more affected file
Extended(req, file) ==
    GatingRequest(Proposal(req.proposal.content, Append(req.proposal.files_affected, file)))

\* the caller adds one affected file to the proposal and has it evaluated again
EvaluateExtended(file) ==
    /\ IsSome(request) /\ IsSome(outcome) /\ cliExit = None /\ ~aborted
    /\ Len(Unwrap(request).proposal.files_affected) < MaxFiles
    /\ Returned(Extended(Unwrap(request), file),
                evaluate(policy, Extended(Unwrap(request), file)))
    /\ previous' = outcome
    /\ UNCHANGED <<policy, results, cliExit>>
    /\ UNCHANGED <<regressionVars, audit, redteamVars, scanned>>

\* the caller asks again about the proposal it asked about first, in a request of
\* its own: another id, within a session
EvaluateAgain ==
    /\ IsSome(request) /\ IsSome(outcome) /\ cliExit = None /\ ~aborted
    /\ previous = None
    /\ Returned(SessionRequest(Unwrap(request).proposal),
                evaluate(policy, SessionRequest(Unwrap(request).proposal)))
    /\ previous' = outcome
    /\ UNCHANGED <<policy, results, cliExit>>
    /\ UNCHANGED <<regressionVars, audit, redteamVars, scanned>>

\* run_test, lines 947 and 990: a panic of evaluate unwinds through run_test, else
\* the result is pushed
\* a variant of Recorded that keeps the latest result only
Recorded_latest_only(test, r) ==
    IF r.kind = "panic"
    THEN aborted' = TRUE /\ results' = results
    ELSE aborted' = FALSE /\ results' = <<test_result(test, r)>>

Recorded(test, r) ==
    IF r.kind = "panic"
    THEN aborted' = TRUE /\ results' = results
    ELSE aborted' = FALSE /\ results' = Append(results, test_result(test, r))

\* TestHarness::run_test
RunTest(test) ==
    /\ request = None /\ cliExit = None /\ ~aborted
    /\ Len(results) < MaxResults
    /\ Recorded(test, evaluate(policy, test.request))
    /\ UNCHANGED <<policy, request, outcome, previous, cliExit>>
    /\ UNCHANGED <<regressionVars, audit, redteamVars, scanned>>

RECURSIVE RunFrom(_, _, _)
RECURSIVE Ran(_, _, _, _)

\* run_test on each of the test cases left, as run_all and the loops of
\* run_regression_tests (lines 1587-1589) and run_redteam_tests do, done holding
\* the results pushed so far; a panic of one ends the run
RunFrom(pol, tests, done) ==
    IF tests = <<>>
    THEN [results |-> done, aborted |-> FALSE]
    ELSE Ran(pol, tests, done, evaluate(pol, Head(tests).request))

Ran(pol, tests, done, r) ==
    IF r.kind = "panic"
    THEN [results |-> done, aborted |-> TRUE]
    ELSE RunFrom(pol, Tail(tests), Append(done, test_result(Head(tests), r)))

\* the slices run_all is given
TestLists == UNION {[1..n -> TestCases] : n \in 1..MaxResults}

\* TestHarness::run_all, lines 995-997, with the tests run as ran
RanAll(ran) ==
    /\ results' = ran.results
    /\ aborted' = ran.aborted

\* TestHarness::run_all: run_test on each test of the slice, in its order
RunAll ==
    /\ request = None /\ cliExit = None /\ ~aborted
    /\ \E tests \in TestLists :
          /\ Len(results) + Len(tests) <= MaxResults
          /\ RanAll(RunFrom(policy, tests, results))
    /\ UNCHANGED <<policy, request, outcome, previous, cliExit>>
    /\ UNCHANGED <<regressionVars, audit, redteamVars, scanned>>

\* TestHarness::clear
Clear ==
    /\ results # <<>> /\ ~aborted
    /\ results' = <<>>
    /\ UNCHANGED <<policy, request, outcome, previous, cliExit, aborted>>
    /\ UNCHANGED <<regressionVars, audit, redteamVars, scanned>>

\* eval_contract_request, lines 1131-1137 and 1196: what the process exits with
\* once evaluate came to r
ExitOf(r) ==
    CASE r.kind = "panic" -> None
      [] r.kind = "err" -> Some(FaultExitCode)
      [] r.kind = "ok" -> Some(exit_code(r.decision.verdict))

\* eval_contract_request, lines 1114-1128: the request file is read and parsed, each
\* failure an early return
ReadRequest(io) ==
    /\ io # "ok"
    /\ cliExit' = Some(FaultExitCode)
    /\ UNCHANGED <<request, outcome, aborted, audit, redteamVars, scanned>>

\* eval_contract_request, lines 1141-1142 and 1188-1189: with --audit the entry of
\* the decision is printed
Audited(req, r, include_audit) ==
    IF include_audit /\ r.kind = "ok"
    THEN Some(from_decision(req, r.decision))
    ELSE None

\* eval_contract_request, lines 1130-1196, once evaluate came to r
Answered(req, r, include_audit) ==
    /\ Returned(req, r)
    /\ cliExit' = ExitOf(r)
    /\ audit' = Audited(req, r, include_audit)

\* eval_contract_request, lines 1130-1196, on the request read from the file
EvalRequest(req, include_audit) == Answered(req, evaluate(policy, req), include_audit)

\* the requests a file can hold about a proposal
FileRequests(proposal) ==
    { GatingRequest(proposal), SessionRequest(proposal),
      with_policy(GatingRequest(proposal), EmptyPolicy) }

\* eval_contract_request of main.rs, which builds its runner by ContractRunner::new()
EvalContractRequest ==
    /\ Idle
    /\ policy = rsr_default
    /\ \/ \E io \in IoOutcomes : ReadRequest(io)
       \/ \E content \in Contents, files \in FileLists, include_audit \in BOOLEAN :
             \E req \in FileRequests(Proposal(content, files)) :
                 EvalRequest(req, include_audit)
    /\ UNCHANGED <<policy, previous, results>>
    /\ UNCHANGED <<regressionVars, redteamVars, scanned>>

\* ------------------------------------------------------ `scan` of the CLI

\* what a path of the file system holds: nothing, a file, a directory whose
\* read_dir fails, or a directory with its entries in the order read_dir gives them
Missing == [kind |-> "missing"]
File == [kind |-> "file"]
Unreadable == [kind |-> "unreadable"]
Dir(entries) == [kind |-> "dir", entries |-> entries]
Entry(name, node) == [name |-> name, node |-> node]

\* PathBuf of a directory entry
Join(path, name) == path \o "/" \o name

\* walkdir, line 486
Skipped(name) ==
    \/ SubSeq(name, 1, 1) = "."
    \/ name \in {"node_modules", "target", "_build"}

RECURSIVE walkdir(_, _)
RECURSIVE WalkEntries(_, _, _)
RECURSIVE Walked(_, _, _, _)

\* walkdir, lines 468-497, on the path and what it holds
walkdir(path, node) ==
    IF node.kind = "file" THEN [kind |-> "ok", files |-> <<path>>]
    ELSE IF node.kind = "missing" THEN [kind |-> "ok", files |-> <<>>]
    ELSE IF node.kind = "unreadable" THEN [kind |-> "err", error |-> "Io"]
    ELSE WalkEntries(path, node.entries, <<>>)

\* walkdir, lines 481-494: the entries left of a directory, files holding what was
\* gathered so far
WalkEntries(path, entries, files) ==
    IF entries = <<>> THEN [kind |-> "ok", files |-> files]
    ELSE IF Skipped(Head(entries).name)
    THEN WalkEntries(path, Tail(entries), files)
    ELSE IF Head(entries).node.kind = "file"
    THEN WalkEntries(path, Tail(entries),
                     Append(files, Join(path, Head(entries).name)))
    ELSE Walked(path, entries, files,
                walkdir(Join(path, Head(entries).name), Head(entries).node))

\* walkdir, line 491, with what the walk of the sub-directory returned
Walked(path, entries, files, sub) ==
    IF sub.kind = "err" THEN sub
    ELSE WalkEntries(path, Tail(entries), files \o sub.files)

\* scan_directory, lines 359-373: the violations of one file
FileViolations(pol, file) ==
    Flatten([i \in DOMAIN pol.languages.forbidden |->
        IF /\ file_matches_language(file, pol.languages.forbidden[i])
           /\ ~check_exception(pol, <<file>>, pol.languages.forbidden[i].name)
        THEN <<[file |-> file,
                violation |-> [kind |-> "ForbiddenLanguage",
                               language |-> pol.languages.forbidden[i].name,
                               file |-> file,
                               context |-> "File extension"]]>>
        ELSE <<>>])

\* scan_directory, lines 376-386: the concerns of one file
FileConcerns(pol, file) ==
    Flatten([i \in DOMAIN pol.languages.tier2 |->
        IF file_matches_language(file, pol.languages.tier2[i])
        THEN <<[file |-> file,
                concern |-> [kind |-> "Tier2Language",
                             language |-> pol.languages.tier2[i].name]]>>
        ELSE <<>>])

\* scan_directory, lines 389-395
ScanVerdict(violations, concerns) ==
    IF violations # <<>>
    THEN [tag |-> "HardViolation", violation |-> violations[1].violation]
    ELSE IF concerns # <<>>
    THEN [tag |-> "SoftConcern", concern |-> concerns[1].concern]
    ELSE [tag |-> "Compliant"]

\* scan_directory, lines 389-403
DirectoryScanResult(path, files, violations, concerns) ==
    [kind |-> "ok",
     result |-> [path |-> path,
                 verdict |-> ScanVerdict(violations, concerns),
                 files_scanned |-> Len(files),
                 violations |-> violations,
                 concerns |-> concerns]]

\* scan_directory, lines 349-404, with what walkdir returned
Scanned(pol, path, walk) ==
    IF walk.kind = "err" THEN walk
    ELSE DirectoryScanResult(
             path, walk.files,
             Flatten([k \in DOMAIN walk.files |-> FileViolations(pol, walk.files[k])]),
             Flatten([k \in DOMAIN walk.files |-> FileConcerns(pol, walk.files[k])]))

\* Oracle::scan_directory, lines 349-404
scan_directory(pol, path, node) == Scanned(pol, path, walkdir(path, node))

\* the roots of a scan: a path that is not there, directories that cannot be
\* read, single files, and directories with files, skipped names, an empty and an
\* unreadable sub-directory
Roots ==
    { [path |-> "src", node |-> Missing],
      [path |-> "src", node |-> Unreadable],
      [path |-> "app.py", node |-> File],
      [path |-> "deno.json", node |-> File],
      [path |-> "src", node |-> Dir(<<>>)],
      [path |-> "src", node |-> Dir(<<Entry("main.rs", File)>>)],
      [path |-> "src",
       node |-> Dir(<<Entry(".git", Dir(<<Entry("config.py", File)>>)),
                      Entry("main.rs", File),
                      Entry("target", Dir(<<Entry("utils.ts", File)>>)),
                      Entry("utils.ts", File)>>)],
      [path |-> "salt",
       node |-> Dir(<<Entry("empty", Dir(<<>>)), Entry("config.py", File)>>)],
      [path |-> "salt",
       node |-> Dir(<<Entry("config.py", File), Entry("private", Unreadable)>>)] }

\* scan_directory of main.rs, lines 575-586
ScanExit(r) ==
    IF r.kind = "err" THEN FaultExitCode
    ELSE IF r.result.violations # <<>> THEN 1
    ELSE IF r.result.concerns # <<>> THEN 2
    ELSE 0

\* scan_directory of main.rs, lines 541-587, with what the oracle returned
ScanPrinted(root, r) ==
    /\ scanned' = Some([root |-> root, outcome |-> r])
    /\ cliExit' = Some(ScanExit(r))

\* `scan`: the oracle scans the root and the CLI turns the outcome into its exit code
ScanDirectory ==
    /\ Idle
    /\ scanned = None
    /\ \E root \in Roots :
          ScanPrinted(root, scan_directory(policy, root.path, root.node))
    /\ UNCHANGED <<policy, request, outcome, previous, results, aborted>>
    /\ UNCHANGED <<regressionVars, audit, redteamVars>>

Next ==
    \/ Evaluate
    \/ \E file \in FileNames : EvaluateExtended(file)
    \/ EvaluateAgain
    \/ \E test \in TestCases : RunTest(test)
    \/ RunAll
    \/ Clear
    \/ EvalContractRequest
    \/ ScanDirectory

Spec == Init /\ [][Next]_vars

\* ------------------------------------------------- `regression` of the CLI

\* run_regression_tests builds its harness by TestHarness::new(); no baseline
\* file has been written yet
RegressionInit == Init /\ policy = rsr_default

\* a process of `regression` is followed by another when it wrote the baseline
\* file: one that panicked, failed or compared left the file as it was, and the
\* next process reads that file and nothing else of the one before
MayStart == ~aborted /\ report = None /\ cliExit # Some(FaultExitCode)

\* run_regression_tests, lines 1591-1628, with the tests run as ran; the baseline
\* file can be written
Saved(ran) ==
    /\ results' = ran.results
    /\ aborted' = ran.aborted
    /\ IF ran.aborted
       THEN cliExit' = None /\ UNCHANGED <<baseline, saved_summary>>
       ELSE /\ baseline' = Some(from_summary(summary(ran.results)))
            /\ saved_summary' = Some(summary(ran.results))
            /\ cliExit' = Some(0)

\* `regression --save`: the tests are run and their results written as the baseline
SaveBaseline ==
    /\ MayStart
    /\ \E tests \in TestFiles : Saved(RunFrom(policy, tests, <<>>))
    /\ UNCHANGED <<policy, request, outcome, previous, current_results, report, audit, redteamVars, scanned>>

\* run_regression_tests, lines 1717-1723
RegressionExit(rep, strict) ==
    IF strict /\ has_regressions(rep) THEN 1
    ELSE IF has_regressions(rep) THEN 2
    ELSE 0

\* run_regression_tests, lines 1644-1723, with the report compare returned
Concluded(rs, rep, strict) ==
    /\ current_results' = rs
    /\ report' = Some(rep)
    /\ cliExit' = Some(RegressionExit(rep, strict))

\* run_regression_tests, lines 1630-1723, with the tests run as ran; a baseline
\* file that exists can be read
Reported(ran, strict) ==
    /\ results' = ran.results
    /\ aborted' = ran.aborted
    /\ IF ran.aborted
       THEN cliExit' = None /\ UNCHANGED <<current_results, report>>
       ELSE IF baseline = None
       THEN cliExit' = Some(FaultExitCode) /\ UNCHANGED <<current_results, report>>
       ELSE Concluded(ran.results, compare(baseline, ran.results), strict)

\* `regression`: the tests are run and their results compared with the baseline
CompareBaseline ==
    /\ MayStart
    /\ \E tests \in TestFiles, strict \in BOOLEAN :
          Reported(RunFrom(policy, tests, <<>>), strict)
    /\ UNCHANGED <<policy, request, outcome, previous, baseline, saved_summary, audit, redteamVars, scanned>>

\* run_regression_tests, lines 1574-1585: the test cases cannot be loaded, or
\* there is none
LoadFault ==
    /\ MayStart
    /\ cliExit' = Some(FaultExitCode)
    /\ results' = <<>>
    /\ UNCHANGED <<policy, request, outcome, previous, aborted>>
    /\ UNCHANGED <<regressionVars, audit, redteamVars, scanned>>

RegressionNext ==
    \/ SaveBaseline
    \/ CompareBaseline
    \/ LoadFault

RegressionSpec == RegressionInit /\ [][RegressionNext]_vars

\* --------------------------------------------------- `redteam` of the CLI

MaxCases == 3

\* RedTeamCategory::from_str, contract lines 1414-1429, on the lowercased name;
\* a category is written as its Debug form, the key of line 1369 of main.rs
CategoryNamed(lower) ==
    CASE lower \in {"documentation_bypass", "doc_bypass", "comment_bypass"} ->
            "DocumentationBypass"
      [] lower \in {"marker_split", "marker_obfuscation", "case_evasion",
                    "extension_masking"} -> "MarkerObfuscation"
      [] lower \in {"encoded_secrets", "encoding"} -> "EncodedContent"
      [] lower \in {"edge_case", "boundary", "unicode_evasion"} -> "BoundaryCondition"
      [] lower \in {"polyglot", "injection"} -> "ContentInjection"
      [] lower \in {"secret_hiding", "secret_splitting"} -> "SecretEvasion"
      [] lower \in {"false_positive_avoidance", "false_positive"} -> "FalsePositiveCheck"
      [] OTHER -> "Custom(\"" \o lower \o "\")"

from_str(s) == CategoryNamed(LowerFrom(s, 1))

\* RedTeamData of load_redteam_file, main.rs lines 1521-1531: a test file as parsed
RedTeamData(name, content, files, expected_verdict, redteam_category) ==
    [name |-> name, proposal |-> Proposal(content, files),
     expected_verdict |-> expected_verdict, redteam_category |-> redteam_category]

\* load_redteam_file, lines 1541-1546
ExpectedVerdicts ==
    [Compliant |-> "Allow", HardViolation |-> "Block", SoftConcern |-> "Warn"]

\* load_redteam_file, lines 1548-1559, with the category of the file
RedTeamCase(data, cat) ==
    [test |-> [name |-> data.name, request |-> GatingRequest(data.proposal),
               expected_verdict |-> ExpectedVerdicts[data.expected_verdict],
               expected_category |-> None],
     redteam_category |-> cat,
     is_fp_check |-> cat = "FalsePositiveCheck"]

\* load_redteam_file as load_redteam_cases takes it for a file of a directory,
\* lines 1498-1506: a file without a category, or with an unknown verdict, is skipped
load_redteam_file(data) ==
    IF data.redteam_category = None THEN <<>>
    ELSE IF data.expected_verdict \notin DOMAIN ExpectedVerdicts THEN <<>>
    ELSE <<RedTeamCase(data, from_str(Unwrap(data.redteam_category)))>>

RECURSIVE load_redteam_cases(_)
load_redteam_cases(files) ==
    IF files = <<>> THEN <<>>
    ELSE load_redteam_file(Head(files)) \o load_redteam_cases(Tail(files))

\* the tests of the cases, in the order of the loop of line 1366
TestsOf(cases) == [i \in DOMAIN cases |-> cases[i].test]

\* run_redteam_tests, line 1381
was_blocked(rs, i) == rs[i].actual_verdict = "Block"

\* run_redteam_tests, line 1374
is_fp(rs, i) == ~rs[i].passed /\ rs[i].actual_verdict = "Block"

\* the three vectors that category_results holds for a key after the loop of
\* lines 1366-1393, each as the set of the cases that pushed to it: entry.0 has
\* one flag an attack case, entry.1 one more for an attack that was not blocked,
\* entry.2 one flag a false-positive check
BlockedVec(cases, cat) ==
    {i \in DOMAIN cases : cases[i].redteam_category = cat /\ ~cases[i].is_fp_check}

BypassedVec(cases, rs, cat) == {i \in BlockedVec(cases, cat) : ~was_blocked(rs, i)}

FpsVec(cases, cat) ==
    {i \in DOMAIN cases : cases[i].redteam_category = cat /\ cases[i].is_fp_check}

\* run_redteam_tests, lines 1402-1416
CategoryStats(cases, rs, cat) ==
    [total |-> Cardinality(BlockedVec(cases, cat))
                 + Cardinality(BypassedVec(cases, rs, cat))
                 + Cardinality(FpsVec(cases, cat)),
     blocked |-> Cardinality({i \in BlockedVec(cases, cat) : was_blocked(rs, i)}),
     bypassed |-> Cardinality(BypassedVec(cases, rs, cat)),
     false_positives |-> Cardinality({i \in FpsVec(cases, cat) : is_fp(rs, i)})]

by_category(cases, rs) ==
    [cat \in {cases[i].redteam_category : i \in DOMAIN cases} |->
        CategoryStats(cases, rs, cat)]

\* the running totals of lines 1406-1408 over the categories cats
RECURSIVE TotalOf(_, _, _)
TotalOf(stats, cats, field) ==
    IF cats = {} THEN 0
    ELSE LET cat == CHOOSE c \in cats : TRUE
         IN stats[cat][field] + TotalOf(stats, cats \ {cat}, field)

\* an f64 that is the quotient of two integers, kept as the exact quotient: for
\* counts up to MaxCases + 1 the f64 operations of security_score give the same
\* u8 as exact arithmetic (from a total of 5 on, rounding can leave the product
\* just under an integer and the cast one lower)
Ratio(num, den) == [num |-> num, den |-> den]

RatSub(a, b) == Ratio(a.num * b.den - b.num * a.den, a.den * b.den)

RatMul(a, b) == Ratio(a.num * b.num, a.den * b.den)

\* run_redteam_tests, lines 1426-1427
Rate(count, total) == IF total > 0 THEN Ratio(count, total) ELSE Ratio(0, 1)

\* run_redteam_tests, lines 1418-1428
RedTeamSummary(total, blocked, bypassed, false_positives, stats) ==
    [total |-> total,
     blocked |-> blocked,
     bypassed |-> bypassed,
     false_positives |-> false_positives,
     known_limitations |-> 0,
     by_category |-> stats,
     bypass_rate |-> Rate(bypassed, total),
     false_positive_rate |-> Rate(false_positives, total)]

Summarised(cases, stats) ==
    RedTeamSummary(Len(cases),
                   TotalOf(stats, DOMAIN stats, "blocked"),
                   TotalOf(stats, DOMAIN stats, "bypassed"),
                   TotalOf(stats, DOMAIN stats, "false_positives"),
                   stats)

\* RedTeamSummary::has_unexpected_bypasses, contract lines 1490-1492
has_unexpected_bypasses(s) == s.bypassed > s.known_limitations

\* f64::clamp(0.0, 100.0)
clamp(r) ==
    IF r.num < 0 THEN Ratio(0, 1)
    ELSE IF r.num > 100 * r.den THEN Ratio(100, 1)
    ELSE r

\* `as u8` of an f64 within 0..100: the fraction is dropped
as_u8(r) == r.num \div r.den

security_score_unclamped(s) ==
    IF s.total = 0 THEN 100
    ELSE as_u8(RatMul(RatSub(Ratio(s.blocked, s.total),
                             RatMul(s.false_positive_rate, Ratio(1, 2))),
                      Ratio(100, 1)))

\* RedTeamSummary::security_score, contract lines 1495-1503
security_score(s) ==
    IF s.total = 0 THEN 100
    ELSE as_u8(clamp(RatMul(RatSub(Ratio(s.blocked, s.total),
                                   RatMul(s.false_positive_rate, Ratio(1, 2))),
                            Ratio(100, 1))))

\* the test files of a red-team corpus: attacks that are blocked, that pass and
\* that only warn, false-positive checks that pass and that are blocked, a file
\* of another kind, one with an unknown verdict and one whose evaluation panics
RedTeamCorpus ==
    { RedTeamData("ts_attack", TypeScriptContent, <<"src/utils.ts">>,
                  "HardViolation", Some("marker_split")),
      RedTeamData("rust_doc", RustContent, <<"src/main.rs">>,
                  "HardViolation", Some("Doc_Bypass")),
      RedTeamData("racket_novel", "#lang racket", <<"src/main.rs">>,
                  "HardViolation", Some("Novel")),
      RedTeamData("rust_ok", RustContent, <<"src/main.rs">>,
                  "Compliant", Some("false_positive")),
      RedTeamData("py_fp", "import os", <<"app.py">>,
                  "Compliant", Some("false_positive_avoidance")),
      RedTeamData("secret", SecretContent, <<"src/main.rs">>,
                  "HardViolation", Some("secret_hiding")),
      RedTeamData("plain", RustContent, <<"src/main.rs">>, "Compliant", None),
      RedTeamData("odd_verdict", TypeScriptContent, <<"src/utils.ts">>,
                  "Blocked", Some("encoding")),
      RedTeamData("wide_marker", WideBeforeContent, <<"src/utils.ts">>,
                  "HardViolation", Some("unicode_evasion")) }

\* the .json files under the path of `redteam`
RedTeamFiles == UNION {[1..n -> RedTeamCorpus] : n \in 1..MaxCases}

\* the --format of the command
OutputFormats == {"Json", "Compact", "Text"}

\* summaries that were printed as JSON and are read back: RedTeamSummary derives
\* Deserialize and its fields are public
SavedSummaries ==
    { [total |-> total, blocked |-> blocked, bypassed |-> 0, false_positives |-> 0,
       known_limitations |-> 0, by_category |-> <<>>,
       bypass_rate |-> Ratio(0, 1), false_positive_rate |-> Ratio(num, den)] :
        total \in 0..MaxCases, blocked \in 0..MaxCases,
        num \in 0..MaxCases, den \in 1..MaxCases }

RedTeamInit ==
    /\ policy = rsr_default
    /\ request = None
    /\ outcome = None
    /\ previous = None
    /\ results = <<>>
    /\ cliExit = None
    /\ aborted = FALSE
    /\ baseline = None
    /\ saved_summary = None
    /\ current_results = <<>>
    /\ report = None
    /\ audit = None
    /\ redteam \in {None} \cup {Some(s) : s \in SavedSummaries}
    /\ score = None
    /\ scanned = None

\* run_redteam_tests, lines 1430-1480, with the summary built
Printed(s, format) ==
    /\ redteam' = Some(s)
    /\ score' = IF format = "Json" THEN None ELSE Some(security_score(s))
    /\ cliExit' = Some(IF has_unexpected_bypasses(s) THEN 1 ELSE 0)

\* run_redteam_tests, lines 1366-1480, with the tests run as ran
Tallied(cases, ran, format) ==
    /\ results' = ran.results
    /\ aborted' = ran.aborted
    /\ IF ran.aborted
       THEN cliExit' = None /\ UNCHANGED redteamVars
       ELSE Printed(Summarised(cases, by_category(cases, ran.results)), format)

\* run_redteam_tests, lines 1352-1480, with the cases loaded
Loaded(cases, format) ==
    IF cases = <<>>
    THEN /\ cliExit' = Some(FaultExitCode)
         /\ UNCHANGED <<results, aborted, redteamVars>>
    ELSE Tallied(cases, RunFrom(policy, TestsOf(cases), <<>>), format)

\* `redteam`: the cases under the path are run and the summary printed
RunRedteamTests ==
    /\ Idle
    /\ redteam = None
    /\ \E files \in RedTeamFiles, format \in OutputFormats :
          Loaded(load_redteam_cases(files), format)
    /\ UNCHANGED <<policy, request, outcome, previous, regressionVars, audit, scanned>>

\* run_redteam_tests, lines 1344-1350: the path does not exist or cannot be read
RedteamLoadFault ==
    /\ Idle
    /\ redteam = None
    /\ cliExit' = Some(FaultExitCode)
    /\ UNCHANGED <<policy, request, outcome, previous, results, aborted>>
    /\ UNCHANGED <<regressionVars, audit, redteamVars, scanned>>

\* security_score called on a summary
SecurityScore ==
    /\ IsSome(redteam)
    /\ score = None
    /\ score' = Some(security_score(Unwrap(redteam)))
    /\ UNCHANGED <<policy, request, outcome, previous, results, cliExit, aborted>>
    /\ UNCHANGED <<regressionVars, audit, redteam, scanned>>

RedTeamNext ==
    \/ RunRedteamTests
    \/ RedteamLoadFault
    \/ SecurityScore

RedTeamSpec == RedTeamInit /\ [][RedTeamNext]_vars

\* ------------------------------------------------------------------ claims

\* evaluate returned Ok(decision) for the last request
HasDecision == IsSome(outcome) /\ Unwrap(outcome).kind = "ok"

\* that decision, its oracle evaluation and the proposal it is about
Decision == Unwrap(outcome).decision
OracleEval == Unwrap(Decision.evaluations.oracle)
Submitted == Unwrap(request).proposal

\* C1: every GatingDecision that ContractRunner.evaluate produced carries a refusal
\* if and only if its verdict is not Allow.
C1_RefusalIffNotAllow ==
    HasDecision => (IsSome(Decision.refusal) <=> Decision.verdict # "Allow")

\* a Block decision has been produced, with its refusal
C1_Witness ==
    HasDecision /\ Decision.verdict = "Block" /\ IsSome(Decision.refusal)

\* C2: the verdict of a decision is Block if check_proposal found at least one
\* violation, otherwise Warn if it found at least one concern, otherwise Allow; no
\* decision and no recorded test result carries Escalate.
C2_VerdictOrder ==
    /\ HasDecision =>
         /\ Decision.verdict =
               IF OracleEval.violations # <<>> THEN "Block"
               ELSE IF OracleEval.concerns # <<>> THEN "Warn"
               ELSE "Allow"
         /\ Decision.verdict # "Escalate"
    /\ \A i \in DOMAIN results : results[i].actual_verdict # "Escalate"

\* a proposal with both a violation and a concern has been blocked
C2_Witness ==
    /\ HasDecision
    /\ OracleEval.violations # <<>>
    /\ OracleEval.concerns # <<>>
    /\ Decision.verdict = "Block"

\* the scan a violation comes from, read off its rule id
Stage(v) ==
    CASE OccursAt(v.rule, "forbidden_language:", 1) -> 1
      [] OccursAt(v.rule, "forbidden_file_extension:", 1) -> 2
      [] OccursAt(v.rule, "toolchain:", 1) -> 3
      [] OccursAt(v.rule, "pattern:", 1) -> 4

\* C3: the violations of an evaluation are those of the content scan, then those of
\* the path scan, then the toolchain rules', then the patterns'; a non-empty list
\* makes the verdict HardViolation carrying its first element; and the concerns are
\* all those of the tier-2 scan.
C3_ScanOrder ==
    HasDecision =>
      /\ OracleEval.violations =
            ContentScan(policy, Submitted) \o PathScan(policy, Submitted)
               \o ToolchainScan(policy, Submitted) \o PatternScan(policy, Submitted)
      /\ \A i, j \in DOMAIN OracleEval.violations :
            i < j => Stage(OracleEval.violations[i]) <= Stage(OracleEval.violations[j])
      /\ OracleEval.violations # <<>> =>
            OracleEval.verdict = [tag |-> "HardViolation",
                                  violation |-> OracleEval.violations[1].violation_type]
      /\ OracleEval.concerns = Tier2Scan(policy, Submitted)

\* an evaluation holds a violation of each of the four scans
C3_Witness ==
    /\ HasDecision
    /\ {Stage(OracleEval.violations[i]) : i \in DOMAIN OracleEval.violations} = 1..4

\* every affected file contains an allowed path of an exception for the language
AllExcepted(files, language) ==
    /\ files # <<>>
    /\ \A file \in Range(files) :
          \E exc \in Range(policy.languages.exceptions) :
              /\ ToLower(exc.language) = ToLower(language)
              /\ \E allowed \in Range(exc.allowed_paths) : Contains(file, allowed)

\* the submitted proposal hits no rule but, possibly, the forbidden language lang
NoOtherRuleHit(lang) ==
    /\ \A other \in Range(policy.languages.forbidden) :
          other.name # lang.name =>
             /\ ~content_contains_language(Submitted.content, other)
             /\ \A file \in Range(Submitted.files_affected) :
                   ~file_matches_language(file, other)
    /\ \A rule \in Range(policy.toolchain.rules) : ~ToolchainHit(Submitted, rule)
    /\ \A p \in Range(policy.patterns.forbidden_patterns) :
          ~IsMatch(p.regex, Submitted.content)
    /\ \A t \in Range(policy.languages.tier2) :
          ~content_contains_language(Submitted.content, t)

\* C4: when the proposal has an affected file and every affected file contains an
\* allowed path of an exception for forbidden language L, the evaluation holds no
\* ForbiddenLanguage violation for L, and with no other rule hit the decision is
\* Allow.
C4_ExceptionShields ==
    HasDecision =>
      \A lang \in Range(policy.languages.forbidden) :
          AllExcepted(Submitted.files_affected, lang.name) =>
            /\ \A i \in DOMAIN OracleEval.violations :
                  ~ /\ OracleEval.violations[i].violation_type.kind = "ForbiddenLanguage"
                    /\ OracleEval.violations[i].violation_type.language = lang.name
            /\ NoOtherRuleHit(lang) => Decision.verdict = "Allow"

\* a proposal whose content and file are of a forbidden language, under an excepted
\* path, has been allowed
C4_Witness ==
    /\ HasDecision
    /\ Decision.verdict = "Allow"
    /\ \E lang \in Range(policy.languages.forbidden) :
          /\ AllExcepted(Submitted.files_affected, lang.name)
          /\ content_contains_language(Submitted.content, lang)
          /\ \E file \in Range(Submitted.files_affected) : file_matches_language(file, lang)

\* some marker occurs, whatever the case, in the content or in an affected file name
MarkerOccurs(proposal, markers) ==
    \E m \in Range(markers) :
        \/ Contains(ToLower(proposal.content), ToLower(m))
        \/ \E file \in Range(proposal.files_affected) : Contains(ToLower(file), ToLower(m))

\* the evaluation holds the ForbiddenToolchain violation of a rule exactly when a
\* tool marker occurs and no requires marker does
ToolchainIff ==
    HasDecision =>
      \A rule \in Range(policy.toolchain.rules) :
          (\E i \in DOMAIN OracleEval.violations :
               OracleEval.violations[i] = ToolchainViolation(rule))
          <=> /\ MarkerOccurs(Submitted, rule.tool_markers)
              /\ ~MarkerOccurs(Submitted, rule.requires_markers)

\* the file the last step added to the proposal
Added == Submitted.files_affected[Len(Submitted.files_affected)]

\* the proposal before the last step violated this rule and nothing else, and the
\* file added matches a requires marker of the rule
RequirementAdded(rule) ==
    /\ IsSome(previous) /\ Unwrap(previous).kind = "ok"
    /\ Unwrap(Unwrap(previous).decision.evaluations.oracle).violations
          = << ToolchainViolation(rule) >>
    /\ files_have_markers(<<Added>>, rule.requires_markers)

\* C5 as stated: the toolchain violation is recorded exactly when a tool marker
\* occurs and no requires marker does, and adding an affected file that matches a
\* requires marker to a proposal whose only violation was that rule changes the
\* decision from Block to Allow.
C5_BlockToAllow ==
    /\ ToolchainIff
    /\ \A rule \in Range(policy.toolchain.rules) :
          RequirementAdded(rule) =>
             /\ Unwrap(previous).decision.verdict = "Block"
             /\ HasDecision /\ Decision.verdict = "Allow"

\* C5 amended: the toolchain violation is recorded exactly when a tool marker occurs
\* and no requires marker does; adding an affected file that matches a requires
\* marker to a proposal whose only violation was that rule removes the rule's
\* violation, and the decision goes from Block to Allow only if the added file is
\* of no forbidden language outside an exception, the proposal then hits no other
\* toolchain rule and the content raised no tier-2 concern: else it stays Block
\* (the first two) or becomes Warn (the last).
C5_BlockToAllowUnlessOtherwiseHit ==
    /\ ToolchainIff
    /\ \A rule \in Range(policy.toolchain.rules) :
          RequirementAdded(rule) =>
             /\ Unwrap(previous).decision.verdict = "Block"
             /\ HasDecision
             /\ \A i \in DOMAIN OracleEval.violations :
                   OracleEval.violations[i] # ToolchainViolation(rule)
             /\ Decision.verdict =
                   IF \/ \E lang \in Range(policy.languages.forbidden) :
                            PathScanHit(policy, Added, lang)
                      \/ \E other \in Range(policy.toolchain.rules) :
                            other # rule /\ ToolchainHit(Submitted, other)
                   THEN "Block"
                   ELSE IF Unwrap(Unwrap(previous).decision.evaluations.oracle).concerns
                              # <<>>
                   THEN "Warn"
                   ELSE "Allow"

\* the required file has been added to a proposal blocked by a toolchain rule alone,
\* and the proposal is now allowed
C5_Witness ==
    /\ HasDecision
    /\ Decision.verdict = "Allow"
    /\ \E rule \in Range(policy.toolchain.rules) : RequirementAdded(rule)

\* C6: a policy holding a forbidden pattern whose regex does not compile is rejected
\* when it is installed: no runner exists over it, so no proposal is evaluated, no
\* test is run and nothing is partially checked against it.
C6_RejectedAtInstall ==
    PatternScanFails(policy) =>
       /\ request = None /\ outcome = None
       /\ results = <<>>

\* C7: with a policy whose regexes all compile, check_proposal returns an
\* evaluation for every proposal and never aborts.
C7_Total ==
    ~PatternScanFails(policy) =>
       /\ ~aborted
       /\ IsSome(request) => HasDecision

\* the test of this name makes the oracle report an error under the installed policy
OracleFails(name) ==
    \E test \in TestCases :
        test.name = name /\ check_proposal(policy, test.request.proposal).kind = "err"

\* C8: when the oracle reports an error for a request, evaluate returns an error
\* and no decision, and run_test records the test as not passed with an actual
\* verdict other than Allow; an evaluation that aborted left no decision, no exit
\* code and no test result behind.
C8_FaultsNeverPass ==
    /\ (IsSome(request) /\ check_proposal(policy, Submitted).kind = "err") =>
          /\ IsSome(outcome) /\ Unwrap(outcome).kind = "err"
          /\ "decision" \notin DOMAIN Unwrap(outcome)
    /\ \A i \in DOMAIN results :
          OracleFails(results[i].name) =>
             ~results[i].passed /\ results[i].actual_verdict # "Allow"
    /\ aborted => outcome = None /\ cliExit = None

\* a test has been recorded whose evaluation the oracle failed
C8_Witness ==
    \E i \in DOMAIN results : OracleFails(results[i].name) /\ ~results[i].passed

\* C9: exit_code maps Allow to 0, Block to 1, Warn to 2 and Escalate to 3, and the
\* code eval_contract_request returns without a decision (the request file could not
\* be read or parsed, or evaluate failed) is non-zero and none of those four.
C9_FaultExitDistinct ==
    /\ exit_code("Allow") = 0 /\ exit_code("Block") = 1
    /\ exit_code("Warn") = 2 /\ exit_code("Escalate") = 3
    /\ (IsSome(cliExit) /\ ~HasDecision) =>
          /\ Unwrap(cliExit) # 0
          /\ \A v \in Verdicts : Unwrap(cliExit) # exit_code(v)

\* C10: the refusal of a Block decision is not overridable and names the level
\* None; the refusal of a Warn decision is overridable at the level User, the
\* lowest of the authorization levels.
C10_OverrideLevels ==
    /\ HasDecision =>
         /\ Decision.verdict = "Block" =>
               /\ IsSome(Decision.refusal)
               /\ ~Unwrap(Decision.refusal).overridable
               /\ Unwrap(Decision.refusal).override_level = Some("None")
         /\ Decision.verdict = "Warn" =>
               /\ IsSome(Decision.refusal)
               /\ Unwrap(Decision.refusal).overridable
               /\ Unwrap(Decision.refusal).override_level = Some("User")
               /\ \A l \in DOMAIN AuthorizationLevel :
                     AuthorizationLevel[Unwrap(Unwrap(Decision.refusal).override_level)]
                        <= AuthorizationLevel[l]

\* a concern has been turned into a Warn decision
C10_Witness ==
    HasDecision /\ Decision.verdict = "Warn" /\ IsSome(Decision.refusal)

\* the refusal of the decision
Refusal == Unwrap(Decision.refusal)

\* the number the claim gives a forbidden language, by its name in lower case
LanguageNumber(lowered) ==
    CASE lowered = "typescript" -> 100
      [] lowered = "python" -> 101
      [] lowered = "go" -> 102
      [] lowered = "java" -> 103
      [] lowered = "kotlin" -> 104
      [] lowered = "swift" -> 105
      [] OTHER -> 199

\* the oracle's verdict is a hard violation of the given kind
HardViolationOf(kind) ==
    /\ HasDecision
    /\ OracleEval.verdict.tag = "HardViolation"
    /\ OracleEval.verdict.violation.kind = kind

\* C11: a HardViolation of kind ForbiddenLanguage becomes a Block whose refusal has
\* category ForbiddenLanguage and the code of the language name compared without
\* regard to case: typescript 100, python 101, go 102, java 103, kotlin 104,
\* swift 105, any other language 199.
C11_LanguageCodes ==
    HardViolationOf("ForbiddenLanguage") =>
        /\ Decision.verdict = "Block"
        /\ IsSome(Decision.refusal)
        /\ Refusal.category = "ForbiddenLanguage"
        /\ numeric(Refusal.code) =
              LanguageNumber(ToLower(OracleEval.verdict.violation.language))

\* a language written "SWIFT" in the policy has been refused with 105
C11_Witness ==
    /\ HardViolationOf("ForbiddenLanguage")
    /\ OracleEval.verdict.violation.language = "SWIFT"
    /\ numeric(Refusal.code) = 105

\* C12: a ForbiddenToolchain, SecurityViolation or ForbiddenPattern violation that
\* has no refusal code of its own is refused with the "other" code of its range,
\* 299, 399 or 499; a toolchain violation by a rule for a tool other than npm gets
\* 299.
C12_OtherCodes ==
    /\ ( /\ HardViolationOf("ForbiddenToolchain")
         /\ OracleEval.verdict.violation.tool \notin {"npm", "yarn"} )
           => numeric(Refusal.code) = 299
    /\ HardViolationOf("SecurityViolation") => numeric(Refusal.code) = 399
    /\ HardViolationOf("ForbiddenPattern") => numeric(Refusal.code) = 499

\* the range of numbers the claim gives each family of codes
FamilyRange ==
    [Lang |-> 100..199, Tool |-> 200..299, Sec |-> 300..399,
     Pat |-> 400..499, Spirit |-> 500..599, Sys |-> 900..999]

NumericInjective == \A a, b \in RefusalCodes : numeric(a) = numeric(b) => a = b

NumericInRange ==
    \A family \in DOMAIN RefusalCode :
        \A code \in RefusalCode[family] : numeric(code) \in FamilyRange[family]

\* C13: RefusalCode.numeric maps no two variants to one number, and the number of
\* each variant lies in the range of its family: Lang 100-199, Tool 200-299,
\* Sec 300-399, Pat 400-499, Spirit 500-599, Sys 900-999.  The code of every
\* refusal produced is one of the variants.
C13_NumericInjective ==
    /\ NumericInjective
    /\ NumericInRange
    /\ (HasDecision /\ IsSome(Decision.refusal)) => Refusal.code \in RefusalCodes

\* refusals of two codes of one family, 199 then 100, have been produced
C13_Witness ==
    /\ HasDecision /\ IsSome(Decision.refusal)
    /\ IsSome(previous) /\ Unwrap(previous).kind = "ok"
    /\ IsSome(Unwrap(previous).decision.refusal)
    /\ numeric(Unwrap(Unwrap(previous).decision.refusal).code) = 199
    /\ numeric(Refusal.code) = 100

\* every string an Evidence item carries
EvidenceStrings(e) ==
    {e.evidence_type, e.match_content, e.explanation} \cup Range(e.file)

\* the strings recorded with the evaluation: rules_checked, and the evidence of
\* the refusal derived from it
RecordedIds ==
    Range(OracleEval.rules_checked)
        \cup ( IF IsSome(Decision.refusal)
               THEN UNION {EvidenceStrings(e) : e \in Range(Refusal.evidence)}
               ELSE {} )

\* C14: in every OracleEvaluation the rule identifier of each violation and of
\* each concern is one of the identifier strings recorded in rules_checked, or in
\* the evidence of the refusal derived from the evaluation.
C14_FindingsTraceable ==
    HasDecision =>
        /\ \A i \in DOMAIN OracleEval.violations :
              OracleEval.violations[i].rule \in RecordedIds
        /\ \A i \in DOMAIN OracleEval.concerns :
              OracleEval.concerns[i].rule \in RecordedIds

\* C15: the refusal of every Block decision that evaluate produced carries at
\* least one Evidence item; the refusal of every Warn decision carries an empty
\* evidence list.
C15_BlockHasEvidence ==
    (HasDecision /\ IsSome(Decision.refusal)) =>
        /\ Decision.verdict = "Block" => Len(Refusal.evidence) >= 1
        /\ Decision.verdict = "Warn" => Refusal.evidence = <<>>

\* a Warn without evidence has turned, with one more affected file, into a Block
\* with the evidence of a file extension
C15_Witness ==
    /\ HasDecision /\ Decision.verdict = "Block"
    /\ Refusal.evidence # <<>>
    /\ Refusal.evidence[1].evidence_type = "FileExtension"
    /\ IsSome(previous) /\ Unwrap(previous).kind = "ok"
    /\ Unwrap(previous).decision.verdict = "Warn"
    /\ Unwrap(Unwrap(previous).decision.refusal).evidence = <<>>

\* ------------------------------------------------------ claims: regression

\* compare has returned a report over a baseline
HasReport == IsSome(report) /\ IsSome(baseline)

Report == Unwrap(report)
BaselineEntries == Unwrap(baseline).results

\* the names of the tests in a list of the report
TestNames(items) == [i \in DOMAIN items |-> items[i].test_name]

\* the class the claim gives a current result against a baseline verdict
ClaimedAgainst(baseline_verdict, current) ==
    CASE baseline_verdict = current.expected_verdict /\ ~current.passed -> "Regression"
      [] baseline_verdict # current.expected_verdict /\ current.passed -> "Improvement"
      [] /\ (baseline_verdict = current.expected_verdict) <=> current.passed
         /\ baseline_verdict # current.actual_verdict -> "BehaviorChange"
      [] OTHER -> "Stable"

\* the class the claim gives a current result
Claimed(current) ==
    IF \E i \in DOMAIN BaselineEntries : BaselineEntries[i].name = current.name
    THEN ClaimedAgainst(get(BaselineEntries, current.name).verdict, current)
    ELSE "New"

\* the names of the current results the claim puts in a class, in their order
ClaimedNames(class) ==
    Flatten([i \in DOMAIN current_results |->
        IF Claimed(current_results[i]) = class
        THEN << current_results[i].name >> ELSE <<>>])

\* the names of the baseline that no current result has, in their order
OnlyInBaseline ==
    Flatten([i \in DOMAIN BaselineEntries |->
        IF \E j \in DOMAIN current_results :
               current_results[j].name = BaselineEntries[i].name
        THEN <<>> ELSE << BaselineEntries[i].name >>])

\* C16: compare classifies every current result whose name has a baseline entry,
\* the baseline having passed when its verdict is the current expected verdict:
\* Regression when the baseline passed and the current result fails, Improvement
\* when the baseline failed and the current result passes, BehaviorChange when
\* both passed or both failed and the baseline verdict is not the current actual
\* verdict, Stable otherwise.  A name only in the current results is New, a name
\* only in the baseline is Removed.
C16_Classification ==
    HasReport =>
        /\ TestNames(Report.regressions) = ClaimedNames("Regression")
        /\ TestNames(Report.improvements) = ClaimedNames("Improvement")
        /\ TestNames(Report.behavior_changes) = ClaimedNames("BehaviorChange")
        /\ Report.stable_count = Len(ClaimedNames("Stable"))
        /\ Report.new_tests = ClaimedNames("New")
        /\ Report.removed_tests = OnlyInBaseline

\* a report with a behaviour change between two failures, and a new test
C16_Witness ==
    /\ HasReport
    /\ Report.behavior_changes # <<>>
    /\ Report.behavior_changes[1].baseline_verdict # current_results[1].expected_verdict
    /\ ~current_results[1].passed
    /\ Report.new_tests # <<>>

\* the names of the baseline and of the current results
ComparedNames ==
    {BaselineEntries[i].name : i \in DOMAIN BaselineEntries}
        \cup {current_results[i].name : i \in DOMAIN current_results}

\* the lists of names of the five classes the report names
NamedClasses ==
    << TestNames(Report.regressions), TestNames(Report.improvements),
       TestNames(Report.behavior_changes), Report.new_tests, Report.removed_tests >>

\* C17: compare puts each test name of the baseline or of the current results,
\* lists with a name occurring twice included, into exactly one of Regression,
\* Improvement, BehaviorChange, Stable, New and Removed: no name is in two
\* classes and the class sizes add up to the number of compared names.
C17_Partition ==
    HasReport =>
        /\ \A k \in 1..5 : \A i, j \in DOMAIN NamedClasses[k] :
              NamedClasses[k][i] = NamedClasses[k][j] => i = j
        /\ \A k, l \in 1..5 :
              k # l => Range(NamedClasses[k]) \cap Range(NamedClasses[l]) = {}
        /\ Len(NamedClasses[1]) + Len(NamedClasses[2]) + Len(NamedClasses[3])
              + Len(NamedClasses[4]) + Len(NamedClasses[5]) + Report.stable_count
             = Cardinality(ComparedNames)

\* the results of a run that are named name
Named(rs, name) == {i \in DOMAIN rs : rs[i].name = name}

\* the baseline was saved from a run with one result named name, and the current
\* run has one result named name
InBothRuns(name) ==
    /\ HasReport /\ IsSome(saved_summary)
    /\ Cardinality(Named(Unwrap(saved_summary).results, name)) = 1
    /\ Cardinality(Named(current_results, name)) = 1

SavedResult(name) ==
    Unwrap(saved_summary).results[CHOOSE i \in Named(Unwrap(saved_summary).results, name) : TRUE]

CurrentResult(name) == current_results[CHOOSE i \in Named(current_results, name) : TRUE]

TestNamesOfCases == {test.name : test \in RegressionCases}

\* the test passed in the saved run and fails now, with the expectation it had and
\* another actual verdict
NowFails(name) ==
    /\ InBothRuns(name)
    /\ SavedResult(name).passed
    /\ CurrentResult(name).expected_verdict = SavedResult(name).expected_verdict
    /\ CurrentResult(name).actual_verdict # SavedResult(name).actual_verdict
    /\ ~CurrentResult(name).passed

\* the items of a list of the report that are about the test named name
ReportedFor(items, name) == {i \in DOMAIN items : items[i].test_name = name}

\* C18: when the baseline was saved from a run in which test T passed, and the
\* later run's result for T has the same expected verdict, another actual
\* verdict and passed = false, compare reports exactly one Regression for T and
\* no Improvement for T.  T names one result of each run.
C18_RegressionReported ==
    \A name \in TestNamesOfCases :
        NowFails(name) =>
            /\ Cardinality(ReportedFor(Report.regressions, name)) = 1
            /\ ReportedFor(Report.improvements, name) = {}

\* "utils" passed when the baseline was saved, fails now, and is the one
\* regression of the report
C18_Witness ==
    /\ NowFails("utils")
    /\ TestNames(Report.regressions) = <<"utils">>
    /\ Report.regressions[1].baseline_verdict = "Allow"
    /\ Report.regressions[1].current_verdict = "Block"

\* only the expected verdict of the test differs between the saved run and the
\* current one
OnlyExpectationEdited(name) ==
    /\ InBothRuns(name)
    /\ CurrentResult(name).expected_verdict # SavedResult(name).expected_verdict
    /\ CurrentResult(name).actual_verdict = SavedResult(name).actual_verdict
    /\ CurrentResult(name).actual_category = SavedResult(name).actual_category

\* C19: when only the expected verdict of a test was edited between the baseline
\* run and the current run, its actual verdict being the same in both, compare
\* reports the test as a BehaviorChange, a Regression or an Improvement, never
\* as Stable.
C19_ExpectationEditReported ==
    \A name \in TestNamesOfCases :
        OnlyExpectationEdited(name) =>
            name \in Range(TestNames(Report.regressions))
                       \cup Range(TestNames(Report.improvements))
                       \cup Range(TestNames(Report.behavior_changes))

\* ----------------------------------------------------------- claims: audit

\* requests with the content of the request evaluated: fresh or of a session,
\* about no file or about others
SameContent ==
    UNION { FileRequests(Proposal(Submitted.content, files)) :
                files \in {<<>>, <<"app.py">>, <<"src/main.rs", "deno.json">>} }

\* decisions that request did not get: an Allow and a Block
OtherDecisions ==
    { evaluate(rsr_default, GatingRequest(Proposal("", <<>>))).decision,
      evaluate(rsr_default, GatingRequest(Proposal(GoContent, <<"package.json">>))).decision }

\* C20: AuditEntry.content_hash is a function of request.proposal.content alone:
\* from_decision gives one content_hash to any two pairs of a request and a
\* decision whose proposals have the same content, whatever the request ids, the
\* affected files, the context and the decision.
C20_HashOfContentAlone ==
    IsSome(audit) =>
        \A req \in SameContent, decision \in OtherDecisions \cup {Decision} :
            from_decision(req, decision).content_hash = Unwrap(audit).content_hash

\* the entry of a blocked request of a session about two files has been printed,
\* and the same content without files or session gives another entry
C20_Witness ==
    /\ IsSome(audit)
    /\ Unwrap(audit).verdict = "Block"
    /\ Unwrap(audit).session_id # None
    /\ Len(Submitted.files_affected) = 2
    /\ from_decision(GatingRequest(Proposal(Submitted.content, <<>>)),
                     evaluate(rsr_default, GatingRequest(Proposal("", <<>>))).decision)
          # Unwrap(audit)

\* ---------------------------------------------------------- claims: tier 2

\* the proposal matches the tier-2 rule by a marker or by an extension
Tier2Match(lang) ==
    \/ content_contains_language(Submitted.content, lang)
    \/ \E file \in Range(Submitted.files_affected) : file_matches_language(file, lang)

\* C21: for every tier-2 language rule, a proposal whose content contains one of
\* the rule's markers or whose affected file has one of the rule's extensions
\* gets a Tier2Language concern from check_proposal; a tier-2 match adds no
\* violation, and with no violations the decision is then Warn.
C21_Tier2Concern ==
    HasDecision =>
        \A lang \in Range(policy.languages.tier2) :
            Tier2Match(lang) =>
                /\ \E i \in DOMAIN OracleEval.concerns :
                      OracleEval.concerns[i].concern_type =
                          [kind |-> "Tier2Language", language |-> lang.name]
                /\ \A i \in DOMAIN OracleEval.violations :
                      OracleEval.violations[i].violation_type.kind # "Tier2Language"
                /\ OracleEval.violations = <<>> => Decision.verdict = "Warn"

\* ------------------------------------------------- claims: policy override

\* the policy the claim has the request evaluated against
PolicyAsked ==
    IF IsSome(Unwrap(request).policy_override)
    THEN Unwrap(Unwrap(request).policy_override)
    ELSE policy

\* the decision is the one that evaluation r came to
DecidedAs(r) == r.kind = "ok" /\ r.decision = Decision

\* C22: evaluate evaluates a request against request.policy_override when it is
\* set, and against the runner's policy only when policy_override is None; the
\* decision's policy_name names the policy used.
C22_OverrideUsed ==
    HasDecision =>
        /\ DecidedAs(evaluate(PolicyAsked, Unwrap(request)))
        /\ Decision.processing.policy_name = PolicyAsked.name

\* ------------------------------------------------------------ claims: red team

HasScore == IsSome(score) /\ IsSome(redteam)

Summary == Unwrap(redteam)

\* (blocked / total - 0.5 * false_positive_rate) * 100 as the quotient of
\* ScoreNum by ScoreDen, for a summary with total > 0
ScoreNum ==
    100 * (2 * Summary.blocked * Summary.false_positive_rate.den
             - Summary.false_positive_rate.num * Summary.total)

ScoreDen == 2 * Summary.total * Summary.false_positive_rate.den

HasRun == IsSome(redteam) /\ results # <<>> /\ ~aborted

\* the cases of the run, found again by the names of their results
RunCases ==
    [i \in DOMAIN results |->
        load_redteam_file(CHOOSE d \in RedTeamCorpus : d.name = results[i].name)[1]]

AttackCases == {i \in DOMAIN results : ~RunCases[i].is_fp_check}

\* C26: in the summary of run_redteam_tests every attack case is counted exactly
\* once, as blocked or as bypassed (its verdict is not Block); each category's
\* total is the number of cases run in that category, so the totals of the
\* categories add up to the global total.
C26_CountedOnce ==
    HasRun =>
        /\ Summary.blocked + Summary.bypassed = Cardinality(AttackCases)
        /\ Summary.bypassed =
              Cardinality({i \in AttackCases : results[i].actual_verdict # "Block"})
        /\ \A cat \in DOMAIN Summary.by_category :
              Summary.by_category[cat].total =
                  Cardinality({i \in DOMAIN results : RunCases[i].redteam_category = cat})
        /\ TotalOf(Summary.by_category, DOMAIN Summary.by_category, "total")
              = Summary.total

\* C30: when every attack case of a red-team run is blocked and no
\* false-positive check is blocked, the security score of the summary is 100,
\* whatever the mix of attack cases and false-positive checks (stated for runs
\* with at least one attack case).
C30_CleanRunScores100 ==
    (/\ HasRun
     /\ IsSome(score)
     /\ AttackCases # {}
     /\ \A i \in AttackCases : results[i].actual_verdict = "Block"
     /\ \A i \in DOMAIN results \ AttackCases : results[i].actual_verdict # "Block")
        => Unwrap(score) = 100

\* ---------------------------------------------------------- claims: scan

HasScan == IsSome(scanned)

ScanRoot == Unwrap(scanned).root

ScanOutcome == Unwrap(scanned).outcome

\* C27: scan_directory returns a Compliant verdict only for a root it enumerated:
\* a root that does not exist or cannot be read yields an error (and the fault
\* exit code of the CLI), never a Compliant result with zero files scanned.
C27_NoVerdictWithoutRoot ==
    (HasScan /\ ScanRoot.node.kind \in {"missing", "unreadable"}) =>
        /\ ScanOutcome.kind = "err"
        /\ cliExit = Some(FaultExitCode)

\* ---------------------------------------------------- claims: determinism

\* the proposal was evaluated a second time: outcome is what the second
\* evaluation returned and previous what the first did
AskedAgain ==
    /\ IsSome(previous)
    /\ IsSome(outcome)
    /\ IsSome(request)
    /\ Unwrap(request) = SessionRequest(Submitted)

First == Unwrap(previous)

Second == Unwrap(outcome)

Pushed == {i \in DOMAIN results' : i > Len(results)}

\* what a step of the harness does to the results list and what summary() then
\* reports; the harness is the one at work when no request was handed to the
\* runner and no command of the CLI has returned
HarnessStep ==
    (request' = None /\ cliExit' = None) =>
        /\ \A test \in TestCases :
              (RunTest(test) /\ ~aborted') =>
                  /\ Len(results') = Len(results) + 1
                  /\ SubSeq(results', 1, Len(results)) = results
                  /\ results'[Len(results')].name = test.name
                  /\ results'[Len(results')].expected_verdict = test.expected_verdict
        /\ Clear => results' = <<>>
        /\ (results' # results /\ results' # <<>>) =>
              /\ Len(results') > Len(results)
              /\ SubSeq(results', 1, Len(results)) = results
              /\ \A i \in Pushed :
                    \E test \in TestCases :
                        /\ results'[i].name = test.name
                        /\ results'[i].expected_verdict = test.expected_verdict
        /\ summary(results').total = Len(results')
        /\ summary(results').passed + summary(results').failed
              = summary(results').total
        /\ summary(results').results = results'

SelfCompared ==
    /\ HasReport
    /\ IsSome(saved_summary)
    /\ current_results = Unwrap(saved_summary).results
    /\ \A i, j \in DOMAIN current_results :
          current_results[i].name = current_results[j].name => i = j

\* C28: results with distinct names compared against the baseline saved from
\* those same results (from_summary, then compare) give no regression, no
\* improvement, no behaviour change, no new and no removed test, and a
\* stable_count equal to the number of results, whatever their status.
C28_SelfCompareStable ==
    SelfCompared =>
        /\ Report.regressions = <<>>
        /\ Report.improvements = <<>>
        /\ Report.behavior_changes = <<>>
        /\ Report.new_tests = <<>>
        /\ Report.removed_tests = <<>>
        /\ Report.stable_count = Len(current_results)

\* ------------------------------------------- claims: exceptions file by file

\* the file contains no allowed path of any exception for the language
Unexcepted(file, language) ==
    \A exc \in Range(policy.languages.exceptions) :
        ToLower(exc.language) = ToLower(language) =>
            \A allowed \in Range(exc.allowed_paths) : ~Contains(file, allowed)

\* C29: an excepted file shields no other: when the content matches a marker of
\* forbidden language L and some affected file contains no allowed path of any
\* exception for L, the evaluation holds a ForbiddenLanguage violation for L and
\* the decision is Block, even with another affected file under an allowed path.
C29_ExceptedFileShieldsNoOther ==
    HasDecision =>
        \A lang \in Range(policy.languages.forbidden) :
            (/\ content_contains_language(Submitted.content, lang)
             /\ \E file \in Range(Submitted.files_affected) :
                   Unexcepted(file, lang.name)) =>
                /\ \E i \in DOMAIN OracleEval.violations :
                      /\ OracleEval.violations[i].violation_type.kind = "ForbiddenLanguage"
                      /\ OracleEval.violations[i].violation_type.language = lang.name
                /\ Decision.verdict = "Block"

==============================================================================
